---- MODULE Spec2Model ----
(***************************************************************************)
(* A model of the search-and-recommendation core of the shopping tool:     *)
(* validation.py (validate_input) and search.py (search_products and the   *)
(* helpers it calls), over a catalog and an embedding store.               *)
(*                                                                         *)
(* Strings are sequences of one-character strings.  Prices are whole       *)
(* numbers, ratings are in tenths (0..50 for 0.0..5.0), cosine             *)
(* similarities are in hundredths, combined scores in ten-thousandths and  *)
(* the rounded similarity_score of a result in thousandths.                *)
(***************************************************************************)
EXTENDS Integers, Sequences, FiniteSets, TLC

VARIABLES
    products,     \* the products table, in fetch order
    embeddings,   \* the product_embeddings table, in fetch order
    hashSalt,     \* the per-process salt of Python's str hash
    rng,          \* numpy's process-wide random generator: [seed, pos]
    pc,           \* per thread: "idle", "seed", "draw" or "done"
    call,         \* per thread: the arguments of the search_products call
    loc,          \* per thread: the locals of the running call
    result,       \* per thread: what the finished call returned (or raised)
    prev,         \* the call that finished before the current one (history)
    val,          \* the last validate_input call and what it returned
    activities,   \* the activity table, in fetch order
    rec,          \* the last recommendation-side call or script run and its outcome
    scored,       \* the last calculate_similarity_scores call and what it returned
    cart_items,   \* the cart_items table, in insertion order
    orders,       \* the orders table, in insertion order
    order_items,  \* the order_items table, in insertion order
    response      \* the last request to the API and its outcome

vars ==
    <<products, embeddings, hashSalt, rng, pc, call, loc, result, prev, val,
      activities, rec, scored, cart_items, orders, order_items, response>>

\* Python's None where a string is expected, and where a number is expected
None == <<"None">>
NoNumber == -1

(***************************************************************************)
(* Strings                                                                 *)
(***************************************************************************)

\* str.lower on one character
LowerChar(c) ==
    CASE c = "T" -> "t"
      [] c = "R" -> "r"
      [] c = "L" -> "l"
      [] c = "N" -> "n"
      [] c = "C" -> "c"
      [] c = "E" -> "e"
      [] c = "Z" -> "z"
      [] OTHER -> c

\* str.lower
Lower(s) == [i \in 1..Len(s) |-> LowerChar(s[i])]

\* Python's `sub in s`
Contains(sub, s) ==
    \E i \in 0..(Len(s) - Len(sub)) : SubSeq(s, i + 1, i + Len(sub)) = sub

IsSpace(c) == c = " "

\* a \w character of the regular expressions
IsWordChar(c) == ~IsSpace(c) /\ c # ","

RECURSIVE LStrip(_)
LStrip(s) == IF s # <<>> /\ IsSpace(Head(s)) THEN LStrip(Tail(s)) ELSE s

RECURSIVE RStrip(_)
RStrip(s) ==
    IF s # <<>> /\ IsSpace(s[Len(s)]) THEN RStrip(SubSeq(s, 1, Len(s) - 1)) ELSE s

\* the whitespace kept
Strip_kept(s) == s

\* str.strip
Strip(s) == RStrip(LStrip(s))

\* the first whitespace-delimited word of a string that starts with one
RECURSIVE FirstWord(_)
FirstWord(s) ==
    IF s = <<>> \/ IsSpace(Head(s)) THEN <<>> ELSE <<Head(s)>> \o FirstWord(Tail(s))

\* str.split() with no argument: the maximal runs of non-whitespace
RECURSIVE Split(_)
Split(s) ==
    LET t == LStrip(s) IN
    IF t = <<>> THEN <<>>
    ELSE LET w == FirstWord(t) IN <<w>> \o Split(SubSeq(t, Len(w) + 1, Len(t)))

\* " ".join(words)
RECURSIVE Join(_)
Join(ws) ==
    IF ws = <<>> THEN <<>>
    ELSE IF Len(ws) = 1 THEN ws[1]
    ELSE ws[1] \o <<" ">> \o Join(Tail(ws))

\* does the word `w` stand at position i of s between two \b boundaries
WordAt(w, s, i) ==
    /\ i + Len(w) - 1 <= Len(s)
    /\ SubSeq(s, i, i + Len(w) - 1) = w
    /\ (i = 1 \/ ~IsWordChar(s[i - 1]))
    /\ (i + Len(w) - 1 = Len(s) \/ ~IsWordChar(s[i + Len(w)]))

\* the length of the joiner re.split matches at position i, or 0
JoinerAt(s, i) ==
    IF WordAt(<<"a", "n", "d">>, s, i) THEN 3
    ELSE IF s[i] = "," THEN 1
    ELSE IF WordAt(<<"w", "i", "t", "h">>, s, i) THEN 4
    ELSE 0

\* re.split(r'\band\b|,|\bwith\b', s): the pieces between the joiners
RECURSIVE ReSplitFrom(_, _, _)
ReSplitFrom(s, start, i) ==
    IF i > Len(s) THEN <<SubSeq(s, start, Len(s))>>
    ELSE LET n == JoinerAt(s, i) IN
         IF n > 0 THEN <<SubSeq(s, start, i - 1)>> \o ReSplitFrom(s, i + n, i + n)
         ELSE ReSplitFrom(s, start, i + 1)

ReSplit(s) == ReSplitFrom(s, 1, 1)

\* [f(x) for x in seq]
SeqMap(f(_), s) == [i \in 1..Len(s) |-> f(s[i])]

\* [x for x in seq if keep(x)]
RECURSIVE SeqFilter(_, _)
SeqFilter(keep(_), s) ==
    IF s = <<>> THEN <<>>
    ELSE IF keep(Head(s)) THEN <<Head(s)>> \o SeqFilter(keep, Tail(s))
    ELSE SeqFilter(keep, Tail(s))

(***************************************************************************)
(* validation.py                                                           *)
(***************************************************************************)

W_lab == <<"l", "a", "b">>
W_Lab == <<"L", "a", "b">>
W_spy == <<"s", "p", "y">>
W_top == <<"t", "o", "p">>
W_Top == <<"T", "o", "p">>
W_tob == <<"t", "o", "b">>
W_lsb == <<"l", "s", "b">>
W_red == <<"r", "e", "d">>
W_tv == <<"t", "v">>
W_pjs == <<"p", "j", "s">>
W_and == <<"a", "n", "d">>
W_pajamas == <<"p", "a", "j", "a", "m", "a", "s">>
W_Clothing == <<"C", "l", "o", "t", "h", "i", "n", "g">>
W_clothing == <<"c", "l", "o", "t", "h", "i", "n", "g">>
W_Electronics == <<"E", "l", "e", "c", "t", "r", "o", "n", "i", "c", "s">>

\* status codes of a product_array entry
STATUS_OK == 0
STATUS_CORRECTED == 1
STATUS_FLAGGED == 2
STATUS_UNSUPPORTED == 3

\* the prohibited keywords the model keeps (two of the set's entries)
prohibited_keywords == {W_lab, W_spy}

\* the rows of SYNONYM_MAP the model keeps, in dictionary order
SYNONYM_MAP ==
    << [category |-> W_Clothing, synonyms |-> {W_top}],
       [category |-> W_Electronics, synonyms |-> {W_tv}] >>

\* the rows of clothing_corrections the model keeps, in dictionary order
clothing_corrections ==
    << [base_term |-> W_pajamas, synonyms |-> {W_pjs}] >>

\* the words SpellChecker knows, most frequent first
SpellDictionary == <<W_and, W_red, W_top, W_lab, W_spy, W_tv, W_pajamas>>

SpellKnown(w) == \E i \in 1..Len(SpellDictionary) : SpellDictionary[i] = w

\* s with its i-th character removed
DropAt(s, i) == SubSeq(s, 1, i - 1) \o SubSeq(s, i + 1, Len(s))

\* one deletion, insertion, replacement or transposition apart
EditDistance1(a, b) ==
    \/ /\ Len(a) = Len(b)
       /\ a # b
       /\ \/ \E i \in 1..Len(a) : DropAt(a, i) = DropAt(b, i)
          \/ \E i \in 1..(Len(a) - 1) :
                /\ a[i] = b[i + 1] /\ a[i + 1] = b[i]
                /\ \A j \in 1..Len(a) : j \notin {i, i + 1} => a[j] = b[j]
    \/ /\ Len(a) = Len(b) + 1
       /\ \E i \in 1..Len(a) : DropAt(a, i) = b
    \/ /\ Len(b) = Len(a) + 1
       /\ \E i \in 1..Len(b) : DropAt(b, i) = a

\* SpellChecker.correction: a known word is kept, an unknown word becomes the
\* most frequent known word one edit away, or stays when there is none
SpellCorrection(word) ==
    LET w == Lower(word)
        cands == {i \in 1..Len(SpellDictionary) : EditDistance1(w, SpellDictionary[i])}
    IN IF SpellKnown(w) THEN w
       ELSE IF cands # {} THEN SpellDictionary[CHOOSE i \in cands : \A j \in cands : i <= j]
       ELSE w

\* spell_check_and_correct
spell_check_and_correct(term) == Join(SeqMap(SpellCorrection, Split(term)))

\* the keyword check left out
ContainsProhibited_never(text) == FALSE

\* any(keyword in text.lower() for keyword in prohibited_keywords)
ContainsProhibited(text) == \E k \in prohibited_keywords : Contains(k, Lower(text))

Entry(v, o, st) == [validated_term |-> v, original_term |-> o, status |-> st]

Returned(n, arr) == [n |-> n, product_array |-> arr]

\* validate_input with simple_mode=True
ValidateSimple(input_str) ==
    IF input_str = <<>> \/ Len(Strip(input_str)) = 0
    THEN Returned(0, <<>>)
    ELSE LET terms == Split(Strip(Lower(input_str))) IN
         IF ContainsProhibited(input_str)
         THEN Returned(1, <<Entry(<<>>, input_str, STATUS_FLAGGED)>>)
         ELSE Returned(Len(terms),
                       [i \in 1..Len(terms) |-> Entry(terms[i], terms[i], STATUS_OK)])

\* SELECT category FROM products WHERE tags LIKE %term% LIMIT 1
get_category_from_database(term, db) ==
    LET hits == {i \in 1..Len(db) : db[i].tags # None /\ Contains(Lower(term), Lower(db[i].tags))}
    IN IF hits = {} THEN None
       ELSE db[CHOOSE i \in hits : \A j \in hits : i <= j].category

get_category_from_synonyms(term) ==
    LET hits == {i \in 1..Len(SYNONYM_MAP) : term \in SYNONYM_MAP[i].synonyms}
    IN IF hits = {} THEN None
       ELSE SYNONYM_MAP[CHOOSE i \in hits : \A j \in hits : i <= j].category

\* the body of the loop of split_and_categorize_search, for one term
CategorizeTerm(original_term, db) ==
    LET term == spell_check_and_correct(original_term) IN
    IF ContainsProhibited(term)
    THEN Entry(<<>>, original_term, STATUS_FLAGGED)
    ELSE LET fromdb == get_category_from_database(term, db)
             category == IF fromdb # None /\ fromdb # <<>> THEN fromdb
                         ELSE get_category_from_synonyms(term)
         IN IF category # None
            THEN Entry(Lower(category), original_term, STATUS_OK)
            ELSE Entry(<<>>, original_term, STATUS_FLAGGED)

NonEmpty(s) == s # <<>>

split_and_categorize_search(input_str, db) ==
    LET terms == SeqFilter(NonEmpty, SeqMap(Strip, ReSplit(Lower(input_str))))
        product_array == [i \in 1..Len(terms) |-> CategorizeTerm(terms[i], db)]
    IN Returned(Len(product_array), product_array)

\* the clothing-specific loop body: the base term of the first row that lists
\* the term as a synonym, else the spell-corrected term
ClothingTerm(term) ==
    LET hits == {i \in 1..Len(clothing_corrections) :
                    Lower(term) \in clothing_corrections[i].synonyms}
    IN IF hits # {}
       THEN clothing_corrections[CHOOSE i \in hits : \A j \in hits : i <= j].base_term
       ELSE spell_check_and_correct(term)

\* validate_input with simple_mode=False
ValidateFull(input_str, location, db) ==
    IF location = 0 THEN split_and_categorize_search(input_str, db)
    ELSE IF location = 1
    THEN LET corrected == Join(SeqMap(ClothingTerm, Split(input_str))) IN
         Returned(1, <<Entry(corrected, input_str,
                             IF Lower(corrected) # Lower(input_str)
                             THEN STATUS_CORRECTED ELSE STATUS_OK)>>)
    ELSE IF 2 <= location /\ location <= 4
    THEN IF location = 4
         THEN Returned(1, <<Entry(<<>>, input_str, STATUS_FLAGGED)>>)
         ELSE Returned(1, <<Entry(input_str, input_str, STATUS_OK)>>)
    ELSE Returned(1, <<Entry(<<>>, input_str, STATUS_UNSUPPORTED)>>)

validate_input(input_str, location, db, simple_mode) ==
    IF simple_mode THEN ValidateSimple(input_str)
    ELSE ValidateFull(input_str, location, db)

(***************************************************************************)
(* search.py: the pure parts                                               *)
(***************************************************************************)

\* value or ''
OrEmpty(v) == IF v = None THEN <<>> ELSE v

\* the filters written `if min_price:` and so on: a bound of 0 is no bound
PassesFilters_truthy(p, min_price, max_price, brand, min_rating) ==
    /\ ((min_price # NoNumber /\ min_price # 0) => p.price >= min_price)
    /\ ((max_price # NoNumber /\ max_price # 0) => p.price <= max_price)
    /\ ((brand # None /\ brand # <<>>) =>
            (p.brand # None /\ Contains(Lower(brand), Lower(p.brand))))
    /\ ((min_rating # NoNumber /\ min_rating # 0) => p.ratings >= min_rating)

\* the filters of products_query, applied to one row
PassesFilters(p, min_price, max_price, brand, min_rating) ==
    /\ (min_price # NoNumber => p.price >= min_price)
    /\ (max_price # NoNumber => p.price <= max_price)
    /\ ((brand # None /\ brand # <<>>) =>
            (p.brand # None /\ Contains(Lower(brand), Lower(p.brand))))
    /\ (min_rating # NoNumber => p.ratings >= min_rating)

\* products_query.all(): the rows that pass, in fetch order
RECURSIVE FetchProducts(_, _, _, _, _)
FetchProducts(ps, min_price, max_price, brand, min_rating) ==
    IF ps = <<>> THEN <<>>
    ELSE (IF PassesFilters(Head(ps), min_price, max_price, brand, min_rating)
          THEN <<Head(ps)>> ELSE <<>>)
         \o FetchProducts(Tail(ps), min_price, max_price, brand, min_rating)

\* title + ' ' + tags + ' ' + category + ' ' + description
SearchText(p) ==
    OrEmpty(p.title) \o <<" ">> \o OrEmpty(p.tags) \o <<" ">>
        \o OrEmpty(p.category) \o <<" ">> \o OrEmpty(p.description)

TermMatches(p, search_terms) ==
    \E i \in 1..Len(search_terms) :
        Contains(Lower(search_terms[i]), Lower(SearchText(p)))

RECURSIVE MatchProducts(_, _)
MatchProducts(ps, search_terms) ==
    IF ps = <<>> THEN <<>>
    ELSE (IF TermMatches(Head(ps), search_terms) THEN <<Head(ps)>> ELSE <<>>)
         \o MatchProducts(Tail(ps), search_terms)

\* [item[0] for item in product_array if item[2] == 0]
RECURSIVE SearchTerms(_)
SearchTerms(product_array) ==
    IF product_array = <<>> THEN <<>>
    ELSE (IF Head(product_array).status = 0
          THEN <<Head(product_array).validated_term>> ELSE <<>>)
         \o SearchTerms(Tail(product_array))

\* the rows of product_embeddings whose product_id is in ids, in fetch order
RECURSIVE FetchEmbeddings(_, _)
FetchEmbeddings(es, ids) ==
    IF es = <<>> THEN <<>>
    ELSE (IF Head(es).product_id \in ids THEN <<Head(es)>> ELSE <<>>)
         \o FetchEmbeddings(Tail(es), ids)

ProductIds(ps) == {ps[i].product_id : i \in 1..Len(ps)}

\* the stored bytes are modelled in units of four bytes; a float64 takes two
\* units (low, high) and a float32 one
UnitBase == 2 ^ 4

\* np.frombuffer(bytes) with the default dtype float64 raises unless the
\* buffer holds a whole number of eight-byte elements
Decodable(bytes) == Len(bytes) % 2 = 0

FromBuffer(bytes) ==
    [i \in 1..(Len(bytes) \div 2) |-> bytes[2 * i - 1] + UnitBase * bytes[2 * i]]

\* ndarray.tobytes() of a float64 array and of a float32 array
RECURSIVE ToBytes64(_)
ToBytes64(v) == IF v = <<>> THEN <<>> ELSE <<Head(v), 0>> \o ToBytes64(Tail(v))

ToBytes32(v) == v

RECURSIVE SumSeq(_)
SumSeq(s) == IF s = <<>> THEN 0 ELSE Head(s) + SumSeq(Tail(s))

Dot(a, b) == SumSeq([i \in 1..Len(a) |-> a[i] * b[i]])

ISqrt(n) == CHOOSE r \in 0..100 : r * r <= n /\ (r + 1) * (r + 1) > n

\* sklearn's cosine_similarity of two vectors of one length, in hundredths
\* (a zero vector has similarity 0)
Cosine(a, b) ==
    LET na == Dot(a, a)
        nb == Dot(b, b)
        d == Dot(a, b)
    IN IF na = 0 \/ nb = 0 THEN 0 ELSE ISqrt((d * d * 10000) \div (na * nb))

\* the seed np.random.seed gets: hash(query) % 2**32, in a narrower width
SeedModulus == 2 ^ 12

Alphabet ==
    << " ", ",", "a", "b", "c", "d", "e", "g", "h", "i", "j", "k", "l", "m", "n",
       "o", "p", "r", "s", "t", "v", "w", "y", "z", "T", "R", "L", "N", "C", "E", "Z" >>

CharCode(c) == CHOOSE i \in 1..Len(Alphabet) : Alphabet[i] = c

\* Python's hash of a str: a function of the text and of the salt the
\* process drew when it started
RECURSIVE StrHash(_, _)
StrHash(salt, s) ==
    IF s = <<>> THEN 17 + 101 * salt
    ELSE (31 * StrHash(salt, SubSeq(s, 1, Len(s) - 1)) + CharCode(s[Len(s)])
            + salt * Len(s)) % 65521

\* np.random.seed(n): the generator restarts at the stream of seed n
RngSeed(n) == [seed |-> n, pos |-> 0]

\* the k-th number of the stream of a seed (1..9)
RngNumber(seed, k) == 1 + (((seed + 3) * (2 * k + 1) + k * k) % 9)

\* np.random.rand(dimensions) on generator state g: the vector drawn
RngRand(g, dimensions) == [i \in 1..dimensions |-> RngNumber(g.seed, g.pos + i)]

\* ... and the state it leaves
RngAfter(g, dimensions) == [seed |-> g.seed, pos |-> g.pos + dimensions]

\* popularity and ratings added without normalising them to 0..1
CombinedScore_raw(cosine, popularity, ratings) ==
    60 * cosine + 2000 * popularity + 200 * ratings

\* 0.2 * (product.popularity / 1000), in ten-thousandths
PopularityTerm(popularity) == 2 * popularity

\* 0.2 * (product.ratings / 5), in ten-thousandths, of a rating in tenths
RatingTerm(ratings) == 40 * ratings

\* the combined score of calculate_similarity_scores, in ten-thousandths
CombinedScore(cosine, popularity, ratings) ==
    60 * cosine + PopularityTerm(popularity) + RatingTerm(ratings)

\* does next((p for p in products if p.product_id == id), None) find a row
HasProduct(ps, id) == \E i \in 1..Len(ps) : ps[i].product_id = id

FindProduct(ps, id) ==
    ps[CHOOSE i \in 1..Len(ps) : ps[i].product_id = id /\
                                 \A j \in 1..Len(ps) : ps[j].product_id = id => i <= j]

\* the (product, score) pairs of calculate_similarity_scores
RECURSIVE PairScores(_, _, _)
PairScores(query_vector, es, ps) ==
    IF es = <<>> THEN <<>>
    ELSE LET rest == PairScores(query_vector, Tail(es), ps)
         IN IF ~HasProduct(ps, Head(es).product_id) THEN rest
            ELSE LET product == FindProduct(ps, Head(es).product_id)
                 IN << [product |-> product,
                        score |-> CombinedScore(
                            Cosine(query_vector, FromBuffer(Head(es).embedding)),
                            product.popularity, product.ratings)] >> \o rest

\* np.frombuffer, np.array and cosine_similarity raise ValueError unless every
\* row decodes to a vector as long as the query vector
ScoresRaise(query_vector, es) ==
    \E i \in 1..Len(es) :
        \/ ~Decodable(es[i].embedding)
        \/ Len(FromBuffer(es[i].embedding)) # Len(query_vector)

\* calculate_similarity_scores once the query vector is drawn
GroupScores(query_vector, es, ps) ==
    IF ScoresRaise(query_vector, es)
    THEN [raised |-> TRUE, pairs |-> <<>>]
    ELSE [raised |-> FALSE, pairs |-> PairScores(query_vector, es, ps)]

\* list.sort(key=attrgetter('dimensions')) then groupby: the rows of each
\* dimension, smallest dimension first, each group in fetch order
RECURSIVE OfDimension(_, _)
OfDimension(es, d) ==
    IF es = <<>> THEN <<>>
    ELSE (IF Head(es).dimensions = d THEN <<Head(es)>> ELSE <<>>)
         \o OfDimension(Tail(es), d)

RECURSIVE GroupsFrom(_, _)
GroupsFrom(es, dims) ==
    IF dims = {} THEN <<>>
    ELSE LET d == CHOOSE x \in dims : \A y \in dims : x <= y
         IN <<OfDimension(es, d)>> \o GroupsFrom(es, dims \ {d})

DimensionGroups(es) == GroupsFrom(es, {es[i].dimensions : i \in 1..Len(es)})

\* insert x after every element whose score is at least x's
RECURSIVE InsertDesc(_, _)
InsertDesc(x, s) ==
    IF s = <<>> THEN <<x>>
    ELSE IF Head(s).score >= x.score THEN <<Head(s)>> \o InsertDesc(x, Tail(s))
    ELSE <<x>> \o s

\* the sort left out
SortByScore_unsorted(s) == s

\* list.sort(key=lambda x: x[1], reverse=True): stable, highest score first
RECURSIVE SortByScore(_)
SortByScore(s) ==
    IF s = <<>> THEN <<>>
    ELSE InsertDesc(s[Len(s)], SortByScore(SubSeq(s, 1, Len(s) - 1)))

\* round(score, 3): ten-thousandths to thousandths, ties to even
Round3(score) ==
    LET q == score \div 10
        r == score % 10
    IN IF r > 5 \/ (r = 5 /\ q % 2 = 1) THEN q + 1 ELSE q

\* the number of results search_products returns at most
TopK == 15

\* seq[:n]
Take(s, n) == SubSeq(s, 1, IF Len(s) < n THEN Len(s) ELSE n)

\* the basic path without the [:15]
BasicResults_uncapped(matched_products) ==
    [i \in 1..Len(matched_products) |->
        [product_id |-> matched_products[i].product_id, similarity_score |-> 1000]]

\* the result list of the basic path: matched_products[:15], each scored 1.0
BasicResults(matched_products) ==
    LET top == Take(matched_products, TopK)
    IN [i \in 1..Len(top) |-> [product_id |-> top[i].product_id, similarity_score |-> 1000]]

\* the result list of the ranked path
RankedResults(all_product_scores) ==
    LET top == Take(SortByScore(all_product_scores), TopK)
    IN [i \in 1..Len(top) |->
           [product_id |-> top[i].product.product_id,
            similarity_score |-> Round3(top[i].score)]]

(***************************************************************************)
(* search.py: recommendations                                              *)
(*                                                                         *)
(* An activity row is [user_id, product_id, action, days_old]: days_old is *)
(* (utcnow() - timestamp).days.  Activity weights are in quarters, user    *)
(* similarities and content scores in hundredths, final scores in          *)
(* ten-thousandths.                                                        *)
(***************************************************************************)

\* Python's None (or 0) where a product id or a user id is expected
NoProduct == 0
NoUser == 0

\* the default time_window_days of get_user_activity_vector
time_window_days == 30

\* the default min_similarity of get_similar_users, in hundredths
min_similarity == 20

\* the number of similar users and of recommendations kept
TopUsers == 5
TopItems == 5

\* the weight 1.0, in quarters
WeightUnit == 2 ^ 2

\* search.py adds, deletes and commits nothing: the activity table after a
\* call is the table before it
LogAfterRead_logged(log) ==
    Append(log, [user_id |-> NoUser, product_id |-> NoProduct,
                 action |-> "searched", days_old |-> 0])

LogAfterRead(log) == log

\* the rows of one user without the filter on the timestamp
RECURSIVE RecentActivities_ever(_, _)
RecentActivities_ever(log, user_id) ==
    IF log = <<>> THEN <<>>
    ELSE (IF Head(log).user_id = user_id THEN <<Head(log)>> ELSE <<>>)
         \o RecentActivities_ever(Tail(log), user_id)

\* the rows of one user with Activity.timestamp >= cutoff_date, in fetch order
RECURSIVE RecentActivities(_, _)
RecentActivities(log, user_id) ==
    IF log = <<>> THEN <<>>
    ELSE (IF Head(log).user_id = user_id /\ Head(log).days_old <= time_window_days
          THEN <<Head(log)>> ELSE <<>>)
         \o RecentActivities(Tail(log), user_id)

\* the rows that pass `if activity.product_id:`
RECURSIVE WithProduct(_)
WithProduct(rows) ==
    IF rows = <<>> THEN <<>>
    ELSE (IF Head(rows).product_id # NoProduct THEN <<Head(rows)>> ELSE <<>>)
         \o WithProduct(Tail(rows))

\* weight = 1.0, whatever the action of the row
BaseWeight(action) == WeightUnit

\* weight * time_decay with time_decay = 1.0 / (1.0 + days_old)
Contribution(a) == BaseWeight(a.action) \div (1 + a.days_old)

\* 1.0 / (1.0 + days_old) raises ZeroDivisionError when days_old is -1
ActivityRaises(rows) == \E i \in 1..Len(rows) : 1 + rows[i].days_old = 0

\* activity_weights[product_id] after the loop
RECURSIVE WeightOf(_, _)
WeightOf(rows, pid) ==
    IF rows = <<>> THEN 0
    ELSE (IF Head(rows).product_id = pid THEN Contribution(Head(rows)) ELSE 0)
         + WeightOf(Tail(rows), pid)

\* get_user_activity_vector: the dict it returns, unless it raises
get_user_activity_vector(log, user_id) ==
    LET rows == WithProduct(RecentActivities(log, user_id))
        keys == {rows[i].product_id : i \in 1..Len(rows)}
    IN IF ActivityRaises(rows)
       THEN [raised |-> TRUE, weights |-> <<>>]
       ELSE [raised |-> FALSE, weights |-> [pid \in keys |-> WeightOf(rows, pid)]]

\* session.query(Activity.user_id).distinct().all(): each user id once, in
\* the order of its first row
RECURSIVE DistinctFrom(_, _)
DistinctFrom(log, seen) ==
    IF log = <<>> THEN <<>>
    ELSE IF Head(log).user_id \in seen THEN DistinctFrom(Tail(log), seen)
    ELSE <<Head(log).user_id>> \o DistinctFrom(Tail(log), seen \cup {Head(log).user_id})

DistinctUsers(log) == DistinctFrom(log, {})

\* the loop of get_similar_users without `if other_id != user_id`
OtherUsers_all(log, user_id) == DistinctUsers(log)

\* the users the loop of get_similar_users looks at
RECURSIVE OtherUsersFrom(_, _)
OtherUsersFrom(users, user_id) ==
    IF users = <<>> THEN <<>>
    ELSE (IF Head(users) # user_id THEN <<Head(users)>> ELSE <<>>)
         \o OtherUsersFrom(Tail(users), user_id)

OtherUsers(log, user_id) == OtherUsersFrom(DistinctUsers(log), user_id)

\* sum(f[x] * g[x] for x in S)
RECURSIVE SumProducts(_, _, _)
SumProducts(f, g, S) ==
    IF S = {} THEN 0
    ELSE LET x == CHOOSE y \in S : TRUE
         IN f[x] * g[x] + SumProducts(f, g, S \ {x})

\* the division of the similarity raises ZeroDivisionError when the two users
\* have a common product and the weights of one of them are all 0
SimilarityRaises(target_vector, other_vector) ==
    /\ DOMAIN target_vector \cap DOMAIN other_vector # {}
    /\ \/ SumProducts(target_vector, target_vector, DOMAIN target_vector) = 0
       \/ SumProducts(other_vector, other_vector, DOMAIN other_vector) = 0

\* the cosine of two activity vectors with a common product, in hundredths
UserSimilarity(target_vector, other_vector) ==
    LET common_products == DOMAIN target_vector \cap DOMAIN other_vector
        dot == SumProducts(target_vector, other_vector, common_products)
        nt == SumProducts(target_vector, target_vector, DOMAIN target_vector)
        no == SumProducts(other_vector, other_vector, DOMAIN other_vector)
        size == ISqrt((dot * dot * 10000) \div (nt * no))
    IN IF dot < 0 THEN 0 - size ELSE size

\* the (other_id, similarity) pairs get_similar_users appends, in loop order
RECURSIVE SimilarFrom(_, _, _)
SimilarFrom(users, target_vector, log) ==
    IF users = <<>> THEN <<>>
    ELSE LET other_vector == get_user_activity_vector(log, Head(users)).weights
             rest == SimilarFrom(Tail(users), target_vector, log)
         IN IF DOMAIN target_vector \cap DOMAIN other_vector = {} THEN rest
            ELSE IF UserSimilarity(target_vector, other_vector) < min_similarity THEN rest
            ELSE << [user_id |-> Head(users),
                     similarity |-> UserSimilarity(target_vector, other_vector)] >> \o rest

\* insert x after every pair whose similarity is at least x's
RECURSIVE InsertBySimilarity(_, _)
InsertBySimilarity(x, s) ==
    IF s = <<>> THEN <<x>>
    ELSE IF Head(s).similarity >= x.similarity
    THEN <<Head(s)>> \o InsertBySimilarity(x, Tail(s))
    ELSE <<x>> \o s

\* the pairs left in loop order
SortBySimilarity_asis(s) == s

\* sorted(similar_users, key=lambda x: x[1], reverse=True)
RECURSIVE SortBySimilarity(_)
SortBySimilarity(s) ==
    IF s = <<>> THEN <<>>
    ELSE InsertBySimilarity(s[Len(s)], SortBySimilarity(SubSeq(s, 1, Len(s) - 1)))

\* get_similar_users: the list it returns, unless a get_user_activity_vector
\* call of it or the division of a similarity raises
get_similar_users(log, user_id) ==
    LET target == get_user_activity_vector(log, user_id)
        others == OtherUsers(log, user_id)
    IN IF target.raised
          \/ \E i \in 1..Len(others) :
                \/ get_user_activity_vector(log, others[i]).raised
                \/ SimilarityRaises(target.weights,
                                    get_user_activity_vector(log, others[i]).weights)
       THEN [raised |-> TRUE, users |-> <<>>]
       ELSE [raised |-> FALSE,
             users |-> SortBySimilarity(SimilarFrom(others, target.weights, log))]

\* filter_by(product_id=item_id).first()
HasEmbedding(es, item_id) == \E i \in 1..Len(es) : es[i].product_id = item_id

FirstEmbedding(es, item_id) ==
    es[CHOOSE i \in 1..Len(es) :
          /\ es[i].product_id = item_id
          /\ \A j \in 1..Len(es) : es[j].product_id = item_id => i <= j]

\* the candidates without the filter product_id != item_id
RECURSIVE OtherEmbeddings_any(_, _, _)
OtherEmbeddings_any(es, item_id, dimensions) ==
    IF es = <<>> THEN <<>>
    ELSE (IF Head(es).dimensions = dimensions THEN <<Head(es)>> ELSE <<>>)
         \o OtherEmbeddings_any(Tail(es), item_id, dimensions)

\* other_embeddings: the rows of another product with the seed's dimensions
RECURSIVE OtherEmbeddings(_, _, _)
OtherEmbeddings(es, item_id, dimensions) ==
    IF es = <<>> THEN <<>>
    ELSE (IF Head(es).product_id # item_id /\ Head(es).dimensions = dimensions
          THEN <<Head(es)>> ELSE <<>>)
         \o OtherEmbeddings(Tail(es), item_id, dimensions)

\* other_vector.get(pid, 0)
WeightGet(weights, pid) == IF pid \in DOMAIN weights THEN weights[pid] ELSE 0

\* collab_scores[i] after the loops: the sum over the similar users kept
RECURSIVE CollabRaw(_, _, _)
CollabRaw(similar_users, pid, log) ==
    IF similar_users = <<>> THEN 0
    ELSE WeightGet(get_user_activity_vector(log, Head(similar_users).user_id).weights, pid)
            * Head(similar_users).similarity
         + CollabRaw(Tail(similar_users), pid, log)

\* the largest number of a non-empty array
RECURSIVE MaxOf(_)
MaxOf(s) ==
    IF Len(s) = 1 THEN s[1]
    ELSE LET m == MaxOf(Tail(s)) IN IF Head(s) > m THEN Head(s) ELSE m

\* collab_scores / collab_scores.max() when the max is positive, else
\* collab_scores as the loops left it; in hundredths
CollabScores(raw) ==
    IF MaxOf(raw) > 0 THEN [i \in 1..Len(raw) |-> (raw[i] * 100) \div MaxOf(raw)]
    ELSE [i \in 1..Len(raw) |-> raw[i] \div WeightUnit]

\* final_scores, in ten-thousandths
FinalScores(content_scores, collab_scores, user_id) ==
    IF user_id # NoUser
    THEN [i \in 1..Len(content_scores) |-> 60 * content_scores[i] + 40 * collab_scores[i]]
    ELSE [i \in 1..Len(content_scores) |-> 100 * content_scores[i]]

\* insert index i before every index whose score is not above i's
RECURSIVE InsertIndex(_, _, _)
InsertIndex(i, s, final_scores) ==
    IF s = <<>> THEN <<i>>
    ELSE IF final_scores[Head(s)] > final_scores[i]
    THEN <<Head(s)>> \o InsertIndex(i, Tail(s), final_scores)
    ELSE <<i>> \o s

RECURSIVE ArgSortFrom(_, _)
ArgSortFrom(n, final_scores) ==
    IF n = 0 THEN <<>>
    ELSE InsertIndex(n, ArgSortFrom(n - 1, final_scores), final_scores)

\* the ranking left out: the candidates in fetch order
ArgSortDesc_unsorted(final_scores) == [i \in 1..Len(final_scores) |-> i]

\* np.argsort(final_scores)[::-1]: highest score first, of equal scores the
\* later index first
ArgSortDesc(final_scores) == ArgSortFrom(Len(final_scores), final_scores)

\* the loop over top_indices: an index whose product has no catalog row is
\* skipped
RECURSIVE Recommendations(_, _, _, _)
Recommendations(top_indices, other_product_ids, final_scores, ps) ==
    IF top_indices = <<>> THEN <<>>
    ELSE LET i == Head(top_indices)
             rest == Recommendations(Tail(top_indices), other_product_ids, final_scores, ps)
         IN IF ~HasProduct(ps, other_product_ids[i]) THEN rest
            ELSE << [product_id |-> FindProduct(ps, other_product_ids[i]).product_id,
                     similarity_score |-> Round3(final_scores[i])] >> \o rest

\* what a call returns: a list, or an exception
Answer(status, items) == [status |-> status, items |-> items]

\* `if not current_embedding` left out: None.embedding raises
NoSeedEmbedding_raises == Answer("AttributeError", <<>>)

\* suggest_products_for_item for a seed without a stored embedding
NoSeedEmbedding == Answer("ok", <<>>)

\* suggest_products_for_item from its second statement on
SuggestFrom(current_embedding, item_id, user_id, ps, es, log) ==
    LET other_embeddings == OtherEmbeddings(es, item_id, current_embedding.dimensions)
        other_product_ids == [i \in 1..Len(other_embeddings) |-> other_embeddings[i].product_id]
        similar == get_similar_users(log, user_id)
    IN IF ~Decodable(current_embedding.embedding) THEN Answer("ValueError", <<>>)
       ELSE IF other_embeddings = <<>> THEN Answer("ok", <<>>)
       ELSE IF ScoresRaise(FromBuffer(current_embedding.embedding), other_embeddings)
       THEN Answer("ValueError", <<>>)
       ELSE IF user_id # NoUser /\ similar.raised THEN Answer("ZeroDivisionError", <<>>)
       ELSE LET current_vector == FromBuffer(current_embedding.embedding)
                content_scores ==
                    [i \in 1..Len(other_embeddings) |->
                        Cosine(current_vector, FromBuffer(other_embeddings[i].embedding))]
                top_users == Take(similar.users, TopUsers)
                collab_scores ==
                    CollabScores([i \in 1..Len(other_embeddings) |->
                                     CollabRaw(top_users, other_product_ids[i], log)])
                final_scores == FinalScores(content_scores, collab_scores, user_id)
                top_indices == Take(ArgSortDesc(final_scores), TopItems)
            IN Answer("ok", Recommendations(top_indices, other_product_ids, final_scores, ps))

suggest_products_for_item(item_id, user_id, ps, es, log) ==
    IF ~HasEmbedding(es, item_id) THEN NoSeedEmbedding
    ELSE SuggestFrom(FirstEmbedding(es, item_id), item_id, user_id, ps, es, log)

NoRec ==
    [op |-> "none", item_id |-> NoProduct, user_id |-> NoUser, status |-> "none",
     items |-> <<>>, weights |-> <<>>, users |-> <<>>]

NoScored == [called |-> FALSE, query_vector |-> <<>>, raised |-> FALSE, pairs |-> <<>>]

(***************************************************************************)
(* app.py: tokens, the cart and checkout                                   *)
(*                                                                         *)
(* A token is what the Authorization header carries: nothing, a string     *)
(* jwt.decode rejects, a signed token past its expiry, or a signed token   *)
(* for a user id.  A database is the three tables a request writes.        *)
(***************************************************************************)

Token(kind, user_id) == [kind |-> kind, user_id |-> user_id]

\* request.headers.get('Authorization') is None or ''
NoToken == Token("missing", NoUser)

\* jwt.decode(token, app.secret_key, algorithms=['HS256'])
Decoded(token) ==
    CASE token.kind = "signed" -> [error |-> "none", user_id |-> token.user_id]
      [] token.kind = "expired" -> [error |-> "ExpiredSignatureError", user_id |-> NoUser]
      [] OTHER -> [error |-> "InvalidTokenError", user_id |-> NoUser]

\* the users table: a shopper, an admin, a shopper whose token was revoked
\* and another shopper
UserRows ==
    << [user_id |-> 1, role |-> "user", token_valid |-> TRUE],
       [user_id |-> 2, role |-> "admin", token_valid |-> TRUE],
       [user_id |-> 3, role |-> "user", token_valid |-> FALSE],
       [user_id |-> 4, role |-> "user", token_valid |-> TRUE] >>

\* session.query(User).get(user_id)
HasUser(user_id) == \E i \in 1..Len(UserRows) : UserRows[i].user_id = user_id

GetUser(user_id) == UserRows[CHOOSE i \in 1..Len(UserRows) : UserRows[i].user_id = user_id]

\* what the decorator does with a request: answer it itself with a status,
\* or (status 0) call the handler with the user
Gate(status, user_id) == [status |-> status, user_id |-> user_id]

\* token_required.decorated up to the call of the handler
token_required(token, db_error) ==
    IF token.kind = "missing" THEN Gate(403, NoUser)
    ELSE IF Decoded(token).error # "none" THEN Gate(401, NoUser)
    ELSE IF db_error THEN Gate(500, NoUser)
    ELSE IF ~HasUser(Decoded(token).user_id) THEN Gate(401, NoUser)
    ELSE IF ~GetUser(Decoded(token).user_id).token_valid THEN Gate(401, NoUser)
    ELSE Gate(0, Decoded(token).user_id)

Db(c, o, i) == [cart_items |-> c, orders |-> o, order_items |-> i]

\* get_session: the block ended normally and session.commit() went through
Commit(db, tx) == tx

\* the flushed order outlives the rollback
Rollback_flushed(db, tx) == [db EXCEPT !.orders = tx.orders]

\* get_session: an exception left the block, session.rollback()
Rollback(db, tx) == db

\* what a handler answers and the database it leaves
Outcome(status, db) == [status |-> status, db |-> db]

\* session.query(CartItem).filter_by(user_id=user.user_id).all()
RECURSIVE CartOf(_, _)
CartOf(rows, user_id) ==
    IF rows = <<>> THEN <<>>
    ELSE (IF Head(rows).user_id = user_id THEN <<Head(rows)>> ELSE <<>>)
         \o CartOf(Tail(rows), user_id)

\* session.query(CartItem).filter_by(user_id=user.user_id).delete()
RECURSIVE WithoutCartOf(_, _)
WithoutCartOf(rows, user_id) ==
    IF rows = <<>> THEN <<>>
    ELSE (IF Head(rows).user_id # user_id THEN <<Head(rows)>> ELSE <<>>)
         \o WithoutCartOf(Tail(rows), user_id)

\* total after the first loop of checkout
RECURSIVE Total(_, _)
Total(cart, ps) ==
    IF cart = <<>> THEN 0
    ELSE (IF HasProduct(ps, Head(cart).product_id)
          THEN FindProduct(ps, Head(cart).product_id).price * Head(cart).quantity
          ELSE 0)
         + Total(Tail(cart), ps)

\* the OrderItem rows the second loop of checkout adds
RECURSIVE OrderItemsOf(_, _, _)
OrderItemsOf(cart, order_id, ps) ==
    IF cart = <<>> THEN <<>>
    ELSE (IF HasProduct(ps, Head(cart).product_id)
          THEN << [order_id |-> order_id, product_id |-> Head(cart).product_id,
                   quantity |-> Head(cart).quantity,
                   price |-> FindProduct(ps, Head(cart).product_id).price] >>
          ELSE <<>>)
         \o OrderItemsOf(Tail(cart), order_id, ps)

\* the statements of a checkout request at which the database can raise
FailPoints == {"none", "token", "query", "flush", "items", "delete", "commit"}

\* checkout(user): fail_at names the statement at which the database raises
\* an SQLAlchemyError, if any
checkout(user_id, db, ps, fail_at) ==
    LET cart == CartOf(db.cart_items, user_id)
        order == [order_id |-> Len(db.orders) + 1, user_id |-> user_id,
                  total |-> Total(cart, ps)]
        flushed == [db EXCEPT !.orders = Append(@, order)]
        with_items ==
            [flushed EXCEPT !.order_items = @ \o OrderItemsOf(cart, order.order_id, ps)]
        cleared == [with_items EXCEPT !.cart_items = WithoutCartOf(@, user_id)]
    IN IF fail_at = "query" THEN Outcome(500, Rollback(db, db))
       ELSE IF cart = <<>> THEN Outcome(400, Commit(db, db))
       ELSE IF fail_at = "flush" THEN Outcome(500, Rollback(db, db))
       ELSE IF fail_at = "items" THEN Outcome(500, Rollback(db, flushed))
       ELSE IF fail_at = "delete" THEN Outcome(500, Rollback(db, with_items))
       ELSE IF fail_at = "commit" THEN Outcome(500, Rollback(db, cleared))
       ELSE Outcome(201, Commit(db, cleared))

HasCartItem(rows, user_id, product_id) ==
    \E i \in 1..Len(rows) : rows[i].user_id = user_id /\ rows[i].product_id = product_id

\* cart_item.quantity += 1 on the row of the user and the product, else a new
\* row of quantity 1
CartWith(rows, user_id, product_id) ==
    IF HasCartItem(rows, user_id, product_id)
    THEN [i \in 1..Len(rows) |->
             IF rows[i].user_id = user_id /\ rows[i].product_id = product_id
             THEN [rows[i] EXCEPT !.quantity = @ + 1] ELSE rows[i]]
    ELSE Append(rows, [user_id |-> user_id, product_id |-> product_id, quantity |-> 1])

\* add_to_cart(user, product_id): the answer, the database and the activity
\* log it leaves
add_to_cart(user_id, product_id, db, ps, log, db_error) ==
    IF GetUser(user_id).role # "user" THEN [status |-> 403, db |-> db, log |-> log]
    ELSE IF db_error THEN [status |-> 500, db |-> Rollback(db, db), log |-> log]
    ELSE IF ~HasProduct(ps, product_id) THEN [status |-> 404, db |-> Commit(db, db), log |-> log]
    ELSE [status |-> 201,
          db |-> Commit(db, [db EXCEPT !.cart_items = CartWith(@, user_id, product_id)]),
          log |-> Append(log, [user_id |-> user_id, product_id |-> product_id,
                               action |-> "cart", days_old |-> 0])]

NoResponse ==
    [op |-> "none", token |-> NoToken, status |-> 0, handled |-> FALSE,
     before |-> Db(<<>>, <<>>, <<>>)]

EmptyShop ==
    /\ cart_items = <<>>
    /\ orders = <<>>
    /\ order_items = <<>>
    /\ response = NoResponse

(***************************************************************************)
(* The stores                                                              *)
(***************************************************************************)

\* the catalog rows the model draws from
ProductOf(kind, id) ==
    CASE kind = "A" ->
           [product_id |-> id, title |-> <<"R", "e", "d", " ", "T", "o", "p">>,
            tags |-> W_top, category |-> W_Clothing, description |-> None,
            brand |-> <<"N", "i", "k", "e">>, price |-> 10, ratings |-> 50,
            popularity |-> 500]
      [] kind = "B" ->
           [product_id |-> id, title |-> <<"l", "a", "b", " ", "t", "v">>,
            tags |-> W_tv, category |-> W_Electronics, description |-> <<>>,
            brand |-> <<"Z", "a", "r", "a">>, price |-> 20, ratings |-> 25,
            popularity |-> 1000]
      [] kind = "C" ->
           [product_id |-> id, title |-> W_red, tags |-> None, category |-> None,
            description |-> W_top, brand |-> None, price |-> 0, ratings |-> 0,
            popularity |-> 0]

\* the embedding rows the model draws from: none, a float64 vector of 2 or 4
\* numbers (as add_product writes them), a float32 vector of 2 numbers (as
\* import_product_embeddings writes them)
VectorOf(id, dimensions) == [i \in 1..dimensions |-> 1 + ((id * i + id) % 4)]

EmbeddingOf(kind, id) ==
    CASE kind = "f64d2" ->
           [product_id |-> id, dimensions |-> 2, embedding |-> ToBytes64(VectorOf(id, 2))]
      [] kind = "f64d4" ->
           [product_id |-> id, dimensions |-> 4, embedding |-> ToBytes64(VectorOf(id, 4))]
      [] kind = "f32d2" ->
           [product_id |-> id, dimensions |-> 2, embedding |-> ToBytes32(VectorOf(id, 2))]

\* a store is described by the kinds of its rows, in product_id order
Row(k, e) == [kind |-> k, emb |-> e]

ProductsOf(desc) == [i \in 1..Len(desc) |-> ProductOf(desc[i].kind, i)]

RECURSIVE EmbeddingsFrom(_, _)
EmbeddingsFrom(desc, i) ==
    IF i > Len(desc) THEN <<>>
    ELSE (IF desc[i].emb = "none" THEN <<>> ELSE <<EmbeddingOf(desc[i].emb, i)>>)
         \o EmbeddingsFrom(desc, i + 1)

EmbeddingsOf(desc) == EmbeddingsFrom(desc, 1)

(***************************************************************************)
(* generate_embeddings.py and data/import_data.py: the writers of the      *)
(* product_embeddings table                                               *)
(*                                                                         *)
(* A writer returns the table it leaves and how it ended.  The values of a *)
(* vector stand for the numbers after normalisation; what the writers      *)
(* differ in is the number of values, the element width of tobytes() and   *)
(* the dimensions column.                                                  *)
(***************************************************************************)

\* EMBEDDING_DIMENSIONS of generate_embeddings.py
EMBEDDING_DIMENSIONS == 300

\* the number of float32 values model.encode returns for one text with
\* MODEL_NAME = 'all-MiniLM-L6-v2'
SentenceDimensions == 384

\* model.encode(text_to_embed)
Encode(product) == [i \in 1..SentenceDimensions |-> 1 + ((product.product_id + i) % 4)]

\* check_embeddings_exist: count > 0
check_embeddings_exist(es) == Len(es) > 0

\* the rows generate_product_embeddings saves, one for every product
GeneratedRows(ps) ==
    [i \in 1..Len(ps) |->
        [product_id |-> ps[i].product_id, dimensions |-> EMBEDDING_DIMENSIONS,
         embedding |-> ToBytes32(Encode(ps[i]))]]

\* generate_product_embeddings: it returns at once when the table holds a row;
\* total_time / total_products raises when there is no product
generate_product_embeddings(ps, es) ==
    IF check_embeddings_exist(es) THEN [status |-> "ok", embeddings |-> es]
    ELSE IF Len(ps) = 0 THEN [status |-> "ZeroDivisionError", embeddings |-> es]
    ELSE [status |-> "ok", embeddings |-> es \o GeneratedRows(ps)]

\* the count of the outer join filtered by ProductEmbedding.product_id IS NULL
products_without_embeddings(ps, es) ==
    Cardinality({i \in 1..Len(ps) : ~HasEmbedding(es, ps[i].product_id)})

\* ensure_embeddings
ensure_embeddings(ps, es) ==
    IF products_without_embeddings(ps, es) > 0
    THEN generate_product_embeddings(ps, es)
    ELSE [status |-> "ok", embeddings |-> es]

\* a row of the embeddings CSV: a product id and the numbers of its embedding
\* string
CsvRow(product_id, values) == [product_id |-> product_id, values |-> values]

\* embedding_values cut to the first embedding_size numbers or padded with 0.0
Resize(values, embedding_size) ==
    [i \in 1..embedding_size |-> IF i <= Len(values) THEN values[i] ELSE 0]

\* chunk[chunk['product_id'].isin(imported_product_ids)]
RECURSIVE IsIn(_, _)
IsIn(csv, imported_product_ids) ==
    IF csv = <<>> THEN <<>>
    ELSE (IF Head(csv).product_id \in imported_product_ids THEN <<Head(csv)>> ELSE <<>>)
         \o IsIn(Tail(csv), imported_product_ids)

\* the rows import_product_embeddings adds to the session
ImportedRows(chunk, embedding_size) ==
    [i \in 1..Len(chunk) |->
        [product_id |-> chunk[i].product_id, dimensions |-> embedding_size,
         embedding |-> ToBytes32(Resize(chunk[i].values, embedding_size))]]

\* product_id is the primary key of product_embeddings
KeyClash(es) == \E i, j \in 1..Len(es) : i # j /\ es[i].product_id = es[j].product_id

\* import_product_embeddings: the commit of the chunk fails as a whole on a
\* repeated product_id; the error is logged and the call returns
import_product_embeddings(csv, es, imported_product_ids, embedding_size) ==
    LET rows == ImportedRows(IsIn(csv, imported_product_ids), embedding_size)
    IN IF KeyClash(es \o rows) THEN [status |-> "ok", embeddings |-> es]
       ELSE [status |-> "ok", embeddings |-> es \o rows]

\* add_product without skip_embeddings: the product row and the float64
\* vector np.random.randn(embedding_size) of it
add_product(kind, embedding_size, ps, es) ==
    LET product_id == Len(ps) + 1
        row == [product_id |-> product_id, dimensions |-> embedding_size,
                embedding |-> ToBytes64(VectorOf(product_id, embedding_size))]
    IN IF HasEmbedding(es, product_id)
       THEN [status |-> "ok", products |-> ps, embeddings |-> es]
       ELSE [status |-> "ok", products |-> Append(ps, ProductOf(kind, product_id)),
             embeddings |-> Append(es, row)]

\* the length of the freely chosen part of a catalog
MaxProducts == 2

\* a bulk of like rows has this many more rows than search returns
ExtraBulk == 1

\* the rows a catalog is built from
Rows ==
    { Row("A", "none"), Row("A", "f64d2"), Row("B", "f64d2"), Row("B", "f64d4"),
      Row("C", "none"), Row("C", "f32d2") }

RECURSIVE SeqsUpTo(_, _)
SeqsUpTo(S, n) ==
    IF n = 0 THEN {<<>>}
    ELSE LET shorter == SeqsUpTo(S, n - 1)
         IN shorter \cup {Append(s, x) : s \in {t \in shorter : Len(t) = n - 1}, x \in S}

Bulk(e) == [i \in 1..(TopK + ExtraBulk) |-> Row("A", e)]

\* every catalog of up to MaxProducts rows, and the catalogs of at most one
\* free row followed by a bulk of rows of kind A
Stores ==
    SeqsUpTo(Rows, MaxProducts)
        \cup {s \o Bulk(e) : s \in SeqsUpTo(Rows, 1), e \in {"none", "f64d2"}}

\* a few stores for the specifications that look at two calls
SmallStores ==
    { <<Row("A", "f64d2"), Row("B", "f64d2")>>,
      <<Row("A", "f64d2"), Row("C", "f64d4")>>,
      <<Row("A", "none"), Row("B", "f64d2"), Row("C", "f64d2")>> }

(***************************************************************************)
(* The inputs                                                              *)
(***************************************************************************)

QueryWords == {W_Lab, W_Top, W_red}

Separators == {<<" ">>, <<" ">> \o W_and \o <<" ">>}

Queries ==
    {<<>>, <<" ">>, W_tob} \cup QueryWords
        \cup {p[1] \o sep \o p[2] : p \in QueryWords \X QueryWords, sep \in Separators}

Filter(lo, hi, b, r) == [min_price |-> lo, max_price |-> hi, brand |-> b, min_rating |-> r]

NoFilter == Filter(NoNumber, NoNumber, None, NoNumber)

Filters ==
    { NoFilter,
      Filter(NoNumber, 0, None, 0),
      Filter(10, 10, None, NoNumber),
      Filter(NoNumber, NoNumber, <<"N", "i", "k", "E">>, NoNumber),
      Filter(0, 20, <<>>, 25) }

Threads == {1, 2}

(***************************************************************************)
(* search_products, step by step                                           *)
(***************************************************************************)

NoCall == [query |-> <<>>, filters |-> NoFilter, simple_mode |-> TRUE]

NoLocals == [matched |-> <<>>, groups |-> <<>>, scores |-> <<>>]

NoResult == [status |-> "none", items |-> <<>>]

Ok(items) == [status |-> "ok", items |-> items]

Raised == [status |-> "ValueError", items |-> <<>>]

NoValidation ==
    [called |-> FALSE, input_str |-> <<>>, location |-> 0, simple_mode |-> TRUE,
     out |-> Returned(0, <<>>)]

NoPrev == [status |-> "none", call |-> NoCall, result |-> NoResult]

\* the validated terms search_products searches for
UsableTerms(query, simple_mode, db) ==
    SearchTerms(validate_input(query, 0, db, simple_mode).product_array)

\* matched_products of a call
Matched(c, db) ==
    MatchProducts(
        FetchProducts(db, c.filters.min_price, c.filters.max_price,
                      c.filters.brand, c.filters.min_rating),
        UsableTerms(c.query, c.simple_mode, db))

InitWith(stores, salts) ==
    /\ \E desc \in stores :
          /\ products = ProductsOf(desc)
          /\ embeddings = EmbeddingsOf(desc)
    /\ hashSalt \in salts
    /\ rng = RngSeed(0)
    /\ pc = [t \in Threads |-> "idle"]
    /\ call = [t \in Threads |-> NoCall]
    /\ loc = [t \in Threads |-> NoLocals]
    /\ result = [t \in Threads |-> NoResult]
    /\ prev = NoPrev
    /\ val = NoValidation
    /\ activities = <<>>
    /\ rec = NoRec
    /\ scored = NoScored
    /\ EmptyShop

\* a call finishes with what it returns or raises
Finish(t, r) ==
    /\ pc' = [pc EXCEPT ![t] = "done"]
    /\ result' = [result EXCEPT ![t] = r]
    /\ loc' = [loc EXCEPT ![t] = NoLocals]

\* search_products up to the first call of calculate_similarity_scores:
\* validate, return [] without usable terms, fetch, match, return [] without
\* matches, fetch the embeddings, return the basic results without embeddings
Call(t, c) ==
    /\ pc[t] = "idle"
    /\ call' = [call EXCEPT ![t] = c]
    /\ LET search_terms == UsableTerms(c.query, c.simple_mode, products)
           matched_products == Matched(c, products)
           all_embeddings == FetchEmbeddings(embeddings, ProductIds(matched_products))
       IN IF search_terms = <<>> \/ matched_products = <<>>
          THEN Finish(t, Ok(<<>>))
          ELSE IF all_embeddings = <<>>
          THEN Finish(t, Ok(BasicResults(matched_products)))
          ELSE /\ pc' = [pc EXCEPT ![t] = "seed"]
               /\ loc' = [loc EXCEPT ![t] = [matched |-> matched_products,
                                             groups |-> DimensionGroups(all_embeddings),
                                             scores |-> <<>>]]
               /\ result' = [result EXCEPT ![t] = NoResult]
    /\ activities' = LogAfterRead(activities)
    /\ UNCHANGED <<products, embeddings, hashSalt, rng, prev, val, rec, scored,
                   cart_items, orders, order_items, response>>

\* generate_query_embedding, first statement: np.random.seed(hash(query) % 2**32)
Seed(t) ==
    /\ pc[t] = "seed"
    /\ rng' = RngSeed(StrHash(hashSalt, call[t].query) % SeedModulus)
    /\ pc' = [pc EXCEPT ![t] = "draw"]
    /\ UNCHANGED <<products, embeddings, hashSalt, call, loc, result, prev, val,
                   activities, rec, scored, cart_items, orders, order_items, response>>

\* generate_query_embedding, second statement: np.random.rand(dimensions), then
\* the rest of calculate_similarity_scores for this dimension group and, after
\* the last group, the sort and the top 15
Draw(t) ==
    /\ pc[t] = "draw"
    /\ LET embeddings_list == Head(loc[t].groups)
           embedding_size == embeddings_list[1].dimensions
           query_vector == RngRand(rng, embedding_size)
           product_scores == GroupScores(query_vector, embeddings_list, loc[t].matched)
           all_product_scores == loc[t].scores \o product_scores.pairs
       IN /\ rng' = RngAfter(rng, embedding_size)
          /\ IF product_scores.raised
             THEN Finish(t, Raised)
             ELSE IF Tail(loc[t].groups) = <<>>
             THEN Finish(t, Ok(RankedResults(all_product_scores)))
             ELSE /\ pc' = [pc EXCEPT ![t] = "seed"]
                  /\ loc' = [loc EXCEPT ![t].groups = Tail(@),
                                        ![t].scores = all_product_scores]
                  /\ UNCHANGED result
    /\ UNCHANGED <<products, embeddings, hashSalt, call, prev, val, activities, rec, scored,
                   cart_items, orders, order_items, response>>

Calls(queries, filters, modes) ==
    {[query |-> q, filters |-> f, simple_mode |-> m] :
        q \in queries, f \in filters, m \in modes}

SearchCall(t) == \E c \in Calls(Queries, Filters, BOOLEAN) : Call(t, c)

Init == InitWith(Stores, {0})

Next == SearchCall(1) \/ Seed(1) \/ Draw(1)

Spec == Init /\ [][Next]_vars

\* the caller takes the result: the thread is free for the next call
Return(t) ==
    /\ pc[t] = "done"
    /\ prev' = [status |-> "done", call |-> call[t], result |-> result[t]]
    /\ pc' = [pc EXCEPT ![t] = "idle"]
    /\ call' = [call EXCEPT ![t] = NoCall]
    /\ result' = [result EXCEPT ![t] = NoResult]
    /\ UNCHANGED <<products, embeddings, hashSalt, rng, loc, val, activities, rec, scored,
                   cart_items, orders, order_items, response>>

\* the salts a Python process can draw for its str hash
HashSalts == {0, 1}

\* the server process is started again: Python draws a new hash salt
Restart ==
    /\ \A t \in Threads : pc[t] = "idle"
    /\ hashSalt' \in HashSalts \ {hashSalt}
    /\ rng' = RngSeed(0)
    /\ UNCHANGED <<products, embeddings, pc, call, loc, result, prev, val,
                   activities, rec, scored, cart_items, orders, order_items, response>>

\* search_products run alone from its first line to its return, on a
\* generator no other call touches
RECURSIVE RankAlone(_, _, _, _, _)
RankAlone(query, salt, groups, matched_products, all_product_scores) ==
    IF groups = <<>> THEN Ok(RankedResults(all_product_scores))
    ELSE LET embedding_size == Head(groups)[1].dimensions
             query_vector == RngRand(RngSeed(StrHash(salt, query) % SeedModulus),
                                     embedding_size)
             product_scores == GroupScores(query_vector, Head(groups), matched_products)
         IN IF product_scores.raised THEN Raised
            ELSE RankAlone(query, salt, Tail(groups), matched_products,
                           all_product_scores \o product_scores.pairs)

search_products(c, db, es, salt) ==
    LET matched_products == Matched(c, db)
        all_embeddings == FetchEmbeddings(es, ProductIds(matched_products))
    IN IF UsableTerms(c.query, c.simple_mode, db) = <<>> \/ matched_products = <<>>
       THEN Ok(<<>>)
       ELSE IF all_embeddings = <<>> THEN Ok(BasicResults(matched_products))
       ELSE RankAlone(c.query, salt, DimensionGroups(all_embeddings), matched_products, <<>>)

\* a few calls for the specifications that look at two calls
SmallCalls == Calls({W_Top, W_red}, {NoFilter}, {TRUE})

SmallCall(t) == \E c \in SmallCalls : Call(t, c)

\* one server process after another, each serving one call at a time
InitDet == InitWith(SmallStores, HashSalts)

NextDet == SmallCall(1) \/ Seed(1) \/ Draw(1) \/ Return(1) \/ Restart

SpecDet == InitDet /\ [][NextDet]_vars

\* one server process serving two calls on two threads
InitConc == InitWith(SmallStores, {0})

NextConc == \E t \in Threads : SmallCall(t) \/ Seed(t) \/ Draw(t)

SpecConc == InitConc /\ [][NextConc]_vars

\* validate_input called on its own
Validate(input_str, location, simple_mode) ==
    /\ ~val.called
    /\ val' = [called |-> TRUE, input_str |-> input_str, location |-> location,
               simple_mode |-> simple_mode,
               out |-> validate_input(input_str, location, products, simple_mode)]
    /\ UNCHANGED <<products, embeddings, hashSalt, rng, pc, call, loc, result, prev,
                   activities, rec, scored, cart_items, orders, order_items, response>>

ValidationInputs == Queries \cup {W_pjs, W_lsb, W_Top \o <<",">> \o W_Lab}

Locations == 0..5

InitVal == InitWith(SmallStores \cup {<<>>}, {0})

NextVal ==
    \E input_str \in ValidationInputs, location \in Locations, simple_mode \in BOOLEAN :
        Validate(input_str, location, simple_mode)

SpecVal == InitVal /\ [][NextVal]_vars

(***************************************************************************)
(* The recommendation calls                                                *)
(***************************************************************************)

Event(u, p, a, d) == [user_id |-> u, product_id |-> p, action |-> a, days_old |-> d]

\* the activity rows a log is built from: views, cart additions and purchases
\* of today and of earlier days, a row without a product, a row older than
\* the window and rows whose timestamp lies ahead of utcnow(), by less than a
\* day (days_old -1) and by more (days_old -2)
Events ==
    { Event(1, 1, "viewed", 0),
      Event(2, 1, "purchased", 0),
      Event(2, 2, "added_to_cart", 1),
      Event(3, 2, "viewed", 3),
      Event(1, NoProduct, "viewed", 0),
      Event(1, 2, "purchased", 40),
      Event(3, 3, "purchased", -1),
      Event(2, 2, "viewed", -2) }

\* the length of an activity log
MaxEvents == 3

Logs == SeqsUpTo(Events, MaxEvents)

Store(ps, es) == [products |-> ps, embeddings |-> es]

StoreOf(desc) == Store(ProductsOf(desc), EmbeddingsOf(desc))

\* more candidates than suggest_products_for_item returns, and one more
\* embedding row whose product has no catalog row
CrowdedStore ==
    LET desc == [i \in 1..(TopItems + 1 + ExtraBulk) |-> Row("A", "f64d2")]
    IN Store(ProductsOf(desc),
             EmbeddingsOf(desc) \o <<EmbeddingOf("f64d2", Len(desc) + 1)>>)

RecStores ==
    { CrowdedStore,
      StoreOf(<<Row("A", "f64d2"), Row("B", "f64d2"), Row("C", "f64d4"), Row("A", "none")>>),
      StoreOf(<<Row("A", "f64d2"), Row("C", "f32d2"), Row("B", "f64d2")>>),
      StoreOf(<<Row("A", "f64d2"), Row("B", "f64d4")>>) }

SeedItems == 1..4

Users == 1..3

\* the part of the state the recommendation calls do not read
Quiet ==
    /\ hashSalt = 0
    /\ rng = RngSeed(0)
    /\ pc = [t \in Threads |-> "idle"]
    /\ call = [t \in Threads |-> NoCall]
    /\ loc = [t \in Threads |-> NoLocals]
    /\ result = [t \in Threads |-> NoResult]
    /\ prev = NoPrev
    /\ val = NoValidation
    /\ rec = NoRec
    /\ scored = NoScored
    /\ EmptyShop

InitFrom(stores, logs) ==
    /\ \E st \in stores :
          /\ products = st.products
          /\ embeddings = st.embeddings
    /\ activities \in logs
    /\ Quiet

\* a call of suggest_products_for_item
Suggest(item_id, user_id) ==
    /\ LET r == suggest_products_for_item(item_id, user_id, products, embeddings, activities)
       IN rec' = [op |-> "suggest", item_id |-> item_id, user_id |-> user_id,
                  status |-> r.status, items |-> r.items, weights |-> <<>>, users |-> <<>>]
    /\ activities' = LogAfterRead(activities)
    /\ UNCHANGED <<products, embeddings, hashSalt, rng, pc, call, loc, result, prev, val, scored,
                   cart_items, orders, order_items, response>>

\* a call of get_user_activity_vector
ActivityVector(user_id) ==
    /\ LET r == get_user_activity_vector(activities, user_id)
       IN rec' = [op |-> "vector", item_id |-> NoProduct, user_id |-> user_id,
                  status |-> IF r.raised THEN "ZeroDivisionError" ELSE "ok",
                  items |-> <<>>, weights |-> r.weights, users |-> <<>>]
    /\ activities' = LogAfterRead(activities)
    /\ UNCHANGED <<products, embeddings, hashSalt, rng, pc, call, loc, result, prev, val, scored,
                   cart_items, orders, order_items, response>>

\* a call of get_similar_users
SimilarUsers(user_id) ==
    /\ LET r == get_similar_users(activities, user_id)
       IN rec' = [op |-> "similar", item_id |-> NoProduct, user_id |-> user_id,
                  status |-> IF r.raised THEN "ZeroDivisionError" ELSE "ok",
                  items |-> <<>>, weights |-> <<>>, users |-> r.users]
    /\ activities' = LogAfterRead(activities)
    /\ UNCHANGED <<products, embeddings, hashSalt, rng, pc, call, loc, result, prev, val, scored,
                   cart_items, orders, order_items, response>>

SuggestCall == \E item_id \in SeedItems, user_id \in {NoUser, 1, 2} : Suggest(item_id, user_id)

ActivityVectorCall == \E user_id \in Users : ActivityVector(user_id)

SimilarUsersCall == \E user_id \in Users : SimilarUsers(user_id)

\* one recommendation-side call over every store and log
InitRec == InitFrom(RecStores, Logs)

NextRec ==
    \/ rec.op = "none" /\ SuggestCall
    \/ rec.op = "none" /\ ActivityVectorCall
    \/ rec.op = "none" /\ SimilarUsersCall

SpecRec == InitRec /\ [][NextRec]_vars

\* the logs import_activities can leave when the CSV holds timestamps ahead of
\* utcnow(): the weight of a row is 1.0 today, undefined for days_old -1 and
\* -1.0 for days_old -2, so that the weights of a product can add up to 0
AheadEvents ==
    { Event(1, 1, "viewed", 0),
      Event(2, 1, "purchased", 0),
      Event(2, 1, "viewed", -2),
      Event(2, 2, "viewed", -2),
      Event(3, 3, "purchased", -1) }

AheadLogs == SeqsUpTo(AheadEvents, MaxEvents)

\* one recommendation-side call over a log with rows dated ahead
InitAhead == InitFrom(RecStores, AheadLogs)

SpecAhead == InitAhead /\ [][NextRec]_vars

\* the rows of three users over two products, of today and of earlier days:
\* enough for a user to have two similar users of different similarity, a
\* user below the threshold and a user with no product in common
PairEvents ==
    { Event(1, 1, "viewed", 3),
      Event(1, 2, "viewed", 0),
      Event(2, 1, "purchased", 0),
      Event(2, 2, "added_to_cart", 1),
      Event(3, 2, "viewed", 0) }

PairLogs == SeqsUpTo(PairEvents, MaxEvents + 1)

\* one recommendation-side call over one store and a log of these rows
InitPairs ==
    InitFrom({StoreOf(<<Row("A", "f64d2"), Row("B", "f64d2"), Row("C", "f64d4"),
                        Row("A", "none")>>)}, PairLogs)

SpecPairs == InitPairs /\ [][NextRec]_vars

\* the embeddings files the import reads
CsvFiles ==
    { <<CsvRow(1, <<1, 2>>)>>,
      <<CsvRow(1, <<1, 2, 3>>), CsvRow(2, <<2>>)>>,
      <<CsvRow(2, <<3, 1>>), CsvRow(2, <<1, 1>>)>> }

\* the embedding_size a writer is called with
EmbeddingSizes == {2, 3}

\* a run of a script: what it did and how it ended
Ran(op, status) == [NoRec EXCEPT !.op = op, !.status = status]

\* a run of import_product_embeddings
ImportEmbeddings(csv, imported_product_ids, embedding_size) ==
    /\ LET r == import_product_embeddings(csv, embeddings, imported_product_ids,
                                          embedding_size)
       IN /\ embeddings' = r.embeddings
          /\ rec' = Ran("import", r.status)
    /\ UNCHANGED <<products, activities, hashSalt, rng, pc, call, loc, result, prev, val,
                   scored, cart_items, orders, order_items, response>>

\* a call of add_product
AddProduct(kind, embedding_size) ==
    /\ Len(products) <= MaxProducts
    /\ LET r == add_product(kind, embedding_size, products, embeddings)
       IN /\ products' = r.products
          /\ embeddings' = r.embeddings
          /\ rec' = Ran("add_product", r.status)
    /\ UNCHANGED <<activities, hashSalt, rng, pc, call, loc, result, prev, val,
                   scored, cart_items, orders, order_items, response>>

\* a run of generate_product_embeddings
Generate ==
    /\ LET r == generate_product_embeddings(products, embeddings)
       IN /\ embeddings' = r.embeddings
          /\ rec' = Ran("generate", r.status)
    /\ UNCHANGED <<products, activities, hashSalt, rng, pc, call, loc, result, prev, val,
                   scored, cart_items, orders, order_items, response>>

\* a run of ensure_embeddings
Ensure ==
    /\ LET r == ensure_embeddings(products, embeddings)
       IN /\ embeddings' = r.embeddings
          /\ rec' = Ran("ensure", r.status)
    /\ UNCHANGED <<products, activities, hashSalt, rng, pc, call, loc, result, prev, val,
                   scored, cart_items, orders, order_items, response>>

ImportEmbeddingsRun ==
    \E csv \in CsvFiles, imported_product_ids \in SUBSET ProductIds(products),
       embedding_size \in EmbeddingSizes :
        ImportEmbeddings(csv, imported_product_ids, embedding_size)

AddProductCall ==
    \E kind \in {"A", "C"}, embedding_size \in EmbeddingSizes : AddProduct(kind, embedding_size)

\* any sequence of writer runs over a catalog imported without embeddings
InitEmb ==
    InitFrom({Store(ProductsOf(desc), <<>>) :
                  desc \in SeqsUpTo({Row("A", "none"), Row("B", "none")}, MaxProducts)},
             {<<>>})

NextEmb ==
    \/ ImportEmbeddingsRun
    \/ AddProductCall
    \/ Generate
    \/ Ensure

SpecEmb == InitEmb /\ [][NextEmb]_vars

\* any sequence of search and recommendation calls over a few stores and logs
FrameStores ==
    { StoreOf(<<Row("A", "f64d2"), Row("B", "f64d2"), Row("C", "f64d4"), Row("A", "none")>>),
      StoreOf(<<Row("A", "f64d2"), Row("C", "f32d2"), Row("B", "f64d2")>>) }

FrameLogs ==
    SeqsUpTo({Event(1, 1, "viewed", 0), Event(2, 1, "purchased", 0),
              Event(2, 2, "added_to_cart", 1)}, 2)

InitFrame == InitFrom(FrameStores, FrameLogs)

NextFrame ==
    \/ SmallCall(1)
    \/ Seed(1)
    \/ Draw(1)
    \/ Return(1)
    \/ SuggestCall
    \/ ActivityVectorCall
    \/ SimilarUsersCall

SpecFrame == InitFrame /\ [][NextFrame]_vars

\* calculate_similarity_scores called on its own: one product, one embedding
\* row of it, and a query vector; import_products stores the popularity_score
\* and the rating of the CSV row as they are, in or out of 0..1000 and 0..5
ScoreVectors == {<<1, 0>>, <<4, 3>>, <<0, 1>>}

ScoreStores ==
    { Store(<<[ProductOf("A", 1) EXCEPT !.popularity = pop, !.ratings = rat]>>,
            <<[product_id |-> 1, dimensions |-> 2, embedding |-> ToBytes64(v)]>>) :
        pop \in {-100, 0, 250, 500, 1000, 1500}, rat \in {-10, 0, 25, 50, 60},
        v \in ScoreVectors }

Score(query_vector) ==
    /\ ~scored.called
    /\ LET r == GroupScores(query_vector, embeddings, products)
       IN scored' = [called |-> TRUE, query_vector |-> query_vector,
                     raised |-> r.raised, pairs |-> r.pairs]
    /\ UNCHANGED <<products, embeddings, hashSalt, rng, pc, call, loc, result, prev, val,
                   activities, rec, cart_items, orders, order_items, response>>

InitScore == InitFrom(ScoreStores, {<<>>})

NextScore == \E query_vector \in ScoreVectors \cup {<<3, 4>>} : Score(query_vector)

SpecScore == InitScore /\ [][NextScore]_vars

(***************************************************************************)
(* The requests to the token-protected endpoints                           *)
(***************************************************************************)

\* the tokens a request can carry; user 9 has no row
Tokens ==
    {NoToken, Token("malformed", NoUser), Token("expired", 1)}
        \cup {Token("signed", user_id) : user_id \in {1, 2, 3, 4, 9}}

\* the three tables as a request finds them
Snapshot == Db(cart_items, orders, order_items)

Respond(op, token, status, handled) ==
    [op |-> op, token |-> token, status |-> status, handled |-> handled,
     before |-> Snapshot]

\* POST /api/checkout: the decorator, then checkout
CheckoutRequest(token, fail_at) ==
    /\ response.op = "none"
    /\ LET gate == token_required(token, fail_at = "token")
           out == checkout(gate.user_id, Snapshot, products, fail_at)
       IN IF gate.status # 0
          THEN /\ response' = Respond("checkout", token, gate.status, FALSE)
               /\ UNCHANGED <<cart_items, orders, order_items>>
          ELSE /\ response' = Respond("checkout", token, out.status, TRUE)
               /\ cart_items' = out.db.cart_items
               /\ orders' = out.db.orders
               /\ order_items' = out.db.order_items
    /\ UNCHANGED <<products, embeddings, hashSalt, rng, pc, call, loc, result, prev, val,
                   activities, rec, scored>>

\* POST /api/cart/add/<product_id>: the decorator, then add_to_cart
AddToCartRequest(token, product_id, fail_at) ==
    /\ response.op = "none"
    /\ Len(activities) < MaxEvents
    /\ LET gate == token_required(token, fail_at = "token")
           out == add_to_cart(gate.user_id, product_id, Snapshot, products, activities,
                              fail_at = "query")
       IN IF gate.status # 0
          THEN /\ response' = Respond("add_to_cart", token, gate.status, FALSE)
               /\ UNCHANGED <<cart_items, orders, order_items, activities>>
          ELSE /\ response' = Respond("add_to_cart", token, out.status, TRUE)
               /\ cart_items' = out.db.cart_items
               /\ orders' = out.db.orders
               /\ order_items' = out.db.order_items
               /\ activities' = out.log
    /\ UNCHANGED <<products, embeddings, hashSalt, rng, pc, call, loc, result, prev, val,
                   rec, scored>>

\* the client takes the response: the next request can come
Deliver ==
    /\ response.op # "none"
    /\ response' = NoResponse
    /\ UNCHANGED <<products, embeddings, hashSalt, rng, pc, call, loc, result, prev, val,
                   activities, rec, scored, cart_items, orders, order_items>>

CheckoutCall == \E token \in Tokens, fail_at \in FailPoints : CheckoutRequest(token, fail_at)

AddToCartCall ==
    \E token \in Tokens, product_id \in {1, 2, 9}, fail_at \in {"none", "token", "query"} :
        AddToCartRequest(token, product_id, fail_at)

\* one request after another over a catalog, from empty carts
InitShop == InitWith(SmallStores, {0})

NextShop == CheckoutCall \/ AddToCartCall \/ Deliver

SpecShop == InitShop /\ [][NextShop]_vars

(***************************************************************************)
(* Claims about search_products                                            *)
(***************************************************************************)

Done(t) == pc[t] = "done"

Returns(t) == Done(t) /\ result[t].status = "ok"

Items(t) == result[t].items

\* the embeddings search_products fetches for the call of thread t
CallEmbeddings(t) ==
    FetchEmbeddings(embeddings, ProductIds(Matched(call[t], products)))

NonIncreasing(items) ==
    \A i \in 1..(Len(items) - 1) :
        items[i].similarity_score >= items[i + 1].similarity_score

\* C1: whatever the query, the filters and the stores, a list search_products
\* returns has at most 15 entries and its similarity_score values do not
\* increase from first to last.
C1_AtMostTopKSorted ==
    \A t \in Threads : Returns(t) => Len(Items(t)) <= TopK /\ NonIncreasing(Items(t))

\* C1 witness: a ranked call over more than 15 matched items with embeddings
\* returned 15 entries whose first score is above the last.
C1_Witness ==
    /\ Returns(1)
    /\ Len(CallEmbeddings(1)) > TopK
    /\ Len(Items(1)) = TopK
    /\ Items(1)[1].similarity_score > Items(1)[TopK].similarity_score

\* the filters as the claims state them
SatisfiesFilters(p, f) ==
    /\ (f.min_price # NoNumber => f.min_price <= p.price)
    /\ (f.max_price # NoNumber => p.price <= f.max_price)
    /\ ((f.brand # None /\ f.brand # <<>>) =>
            (p.brand # None /\ Contains(Lower(f.brand), Lower(p.brand))))
    /\ (f.min_rating # NoNumber => f.min_rating <= p.ratings)

TextHas(p, words) == \E w \in words : Contains(Lower(w), Lower(SearchText(p)))

JoinerWords == {W_and, <<"w", "i", "t", "h">>}

QueryWordsOf(query) ==
    LET ws == Split(Lower(query)) IN {ws[i] : i \in 1..Len(ws)} \ JoinerWords

\* every word of the query is a prohibited keyword
SolelyProhibited(query) ==
    /\ QueryWordsOf(query) # {}
    /\ QueryWordsOf(query) \subseteq prohibited_keywords

QueryTermsOf(query, simple_mode) ==
    LET ts == IF simple_mode THEN Split(Lower(query))
              ELSE SeqFilter(NonEmpty, SeqMap(Strip, ReSplit(Lower(query))))
    IN {ts[i] : i \in 1..Len(ts)}

\* the terms of the query that hold no prohibited keyword
CleanTerms(query, simple_mode) ==
    {w \in QueryTermsOf(query, simple_mode) : ~\E k \in prohibited_keywords : Contains(k, w)}

\* a query with a prohibited term and a term that is not
MixedQuery(query, simple_mode) ==
    /\ CleanTerms(query, simple_mode) # {}
    /\ CleanTerms(query, simple_mode) # QueryTermsOf(query, simple_mode)

\* C3 (as claimed): when some terms of a query are prohibited and some are
\* not, search_products does not answer with the empty list while a catalog
\* row passes the filters and matches one of the terms that are not.
C3_MixedQueryKeepsCleanTerms ==
    \A t \in Threads :
        (/\ Done(t)
         /\ MixedQuery(call[t].query, call[t].simple_mode)
         /\ \E i \in 1..Len(products) :
               /\ SatisfiesFilters(products[i], call[t].filters)
               /\ TextHas(products[i], CleanTerms(call[t].query, call[t].simple_mode)))
        => result[t] # Ok(<<>>)

\* C8: when no matched item has a stored embedding, search_products returns
\* the first 15 matched items in fetch order, each with similarity_score 1.0.
C8_BasicPathFirstTopK ==
    \A t \in Threads :
        (Done(t) /\ CallEmbeddings(t) = <<>>) =>
            LET matched == Matched(call[t], products)
                n == IF Len(matched) < 16 THEN Len(matched) ELSE 15
            IN /\ result[t].status = "ok"
               /\ Len(Items(t)) = n
               /\ \A i \in 1..n :
                     /\ Items(t)[i].product_id = matched[i].product_id
                     /\ Items(t)[i].similarity_score = 1000

\* C8 witness: a call matched more than 15 items, none with an embedding, and
\* returned 15 entries.
C8_Witness ==
    /\ Done(1)
    /\ CallEmbeddings(1) = <<>>
    /\ Len(Matched(call[1], products)) > 15
    /\ Len(Items(1)) = 15

\* C9 (as claimed): when at most 15 items match, every matched item is in
\* the list search_products returns, with or without a stored embedding.
C9_MatchedItemsNotLost ==
    \A t \in Threads :
        (Returns(t) /\ Len(Matched(call[t], products)) <= 15) =>
            \A i \in 1..Len(Matched(call[t], products)) :
                \E j \in 1..Len(Items(t)) :
                    Items(t)[j].product_id = Matched(call[t], products)[i].product_id

Entries(out) == {out.product_array[i] : i \in 1..Len(out.product_array)}

\* C4 (as claimed): for every input class and in both modes, a term that
\* holds a prohibited keyword never comes back with status 0: it comes back
\* flagged, with an empty validated term.
C4_ProhibitedNeverOk ==
    \A e \in Entries(val.out) :
        ContainsProhibited(e.original_term) =>
            e.status = STATUS_FLAGGED /\ e.validated_term = <<>>

\* the prohibited status is among the statuses returned
Rejects(out) == \E e \in Entries(out) : e.status = STATUS_FLAGGED

\* C5 (as claimed): for a general-search input, one mode returns the
\* prohibited status exactly when the other mode does.
C5_ModesRejectAlike ==
    (val.called /\ val.location = 0) =>
        (Rejects(val.out) <=>
            Rejects(validate_input(val.input_str, 0, products, ~val.simple_mode)))

(***************************************************************************)
(* Claims about two calls                                                  *)
(***************************************************************************)

\* C6 (as claimed): a call with the query and filters of the call before it,
\* over the same stores, returns what that call returned.
C6_SameCallSameResult ==
    (Done(1) /\ prev.status = "done" /\ prev.call = call[1]) => prev.result = result[1]

\* C7 (as claimed): a call that ran while a call for another query ran on
\* another thread returns what it returns when it runs alone on the same stores.
C7_ConcurrentCallsIndependent ==
    \A t \in Threads :
        (Done(t) /\ \A u \in Threads \ {t} : call[u].query # call[t].query)
            => result[t] = search_products(call[t], products, embeddings, hashSalt)

(***************************************************************************)
(* Claims about calculate_similarity_scores and the recommendation calls   *)
(***************************************************************************)

\* the combined score as the claim writes it, in ten-thousandths, from a
\* cosine in hundredths, a popularity and a rating in tenths
ClaimedScore(cosine, popularity, rating) ==
    (6000 * cosine) \div 100 + (2000 * popularity) \div 1000 + (2000 * rating) \div 50

\* the cosine of the query vector and the stored vector of a product
PairCosine(product) ==
    Cosine(scored.query_vector,
           FromBuffer(FirstEmbedding(embeddings, product.product_id).embedding))

\* C11: the score calculate_similarity_scores pairs with a product is
\* 0.6 * cosine + 0.2 * (popularity / 1000) + 0.2 * (rating / 5).
C11_CombinedScoreFormula ==
    (scored.called /\ ~scored.raised) =>
        \A i \in 1..Len(scored.pairs) :
            scored.pairs[i].score =
                ClaimedScore(PairCosine(scored.pairs[i].product),
                             scored.pairs[i].product.popularity,
                             scored.pairs[i].product.ratings)

\* C11 witness: popularity 500, rating 2.5 and cosine 0.8 were scored 0.68.
C11_Witness ==
    /\ scored.called
    /\ Len(scored.pairs) = 1
    /\ scored.pairs[1].product.popularity = 500
    /\ scored.pairs[1].product.ratings = 25
    /\ PairCosine(scored.pairs[1].product) = 80
    /\ scored.pairs[1].score = 6800

Suggested == rec.op = "suggest" /\ rec.status = "ok"

\* the candidates of the suggest call the state records
Candidates ==
    OtherEmbeddings(embeddings, rec.item_id,
                    FirstEmbedding(embeddings, rec.item_id).dimensions)

\* C12: a list suggest_products_for_item returns has at most 5 entries and
\* its similarity_score values do not increase from first to last.
C12_AtMostTopItemsSorted ==
    Suggested => Len(rec.items) <= TopItems /\ NonIncreasing(rec.items)

\* C12 witness: a call with more than 5 candidates, for a user who has similar
\* users, skipped a top-ranked candidate without a catalog row and returned
\* entries whose first score is above the last.
C12_Witness ==
    /\ Suggested
    /\ rec.user_id # NoUser
    /\ get_similar_users(activities, rec.user_id).users # <<>>
    /\ HasEmbedding(embeddings, rec.item_id)
    /\ Len(Candidates) > TopItems
    /\ rec.items # <<>>
    /\ Len(rec.items) < TopItems
    /\ rec.items[1].similarity_score > rec.items[Len(rec.items)].similarity_score

\* C13: no entry of the list suggest_products_for_item returns has the seed
\* item's product id.
C13_SeedNotRecommended ==
    Suggested => \A i \in 1..Len(rec.items) : rec.items[i].product_id # rec.item_id

\* C13 witness: a call for a seed with an embedding and a catalog row returned
\* a non-empty list.
C13_Witness ==
    /\ Suggested
    /\ HasEmbedding(embeddings, rec.item_id)
    /\ HasProduct(products, rec.item_id)
    /\ rec.items # <<>>

\* C14: for a seed item without a stored embedding suggest_products_for_item
\* returns the empty list and does not raise, with or without a user id.
C14_NoSeedEmbeddingReturnsEmpty ==
    (rec.op = "suggest" /\ ~HasEmbedding(embeddings, rec.item_id)) =>
        rec.status = "ok" /\ rec.items = <<>>

\* C14 witness: a call with a user id for a seed without an embedding returned
\* while the store holds embeddings and the log holds rows of that user.
C14_Witness ==
    /\ rec.op = "suggest"
    /\ ~HasEmbedding(embeddings, rec.item_id)
    /\ rec.user_id # NoUser
    /\ embeddings # <<>>
    /\ RecentActivities(activities, rec.user_id) # <<>>

\* C15 (as claimed): had a viewed row of the user been a purchased row of the
\* same age and product, the weight of that product in the activity vector
\* would be strictly larger.
C15_PurchaseOutweighsView ==
    (rec.op = "vector" /\ rec.status = "ok") =>
        \A i \in 1..Len(activities) :
            (/\ activities[i].user_id = rec.user_id
             /\ activities[i].action = "viewed"
             /\ activities[i].product_id \in DOMAIN rec.weights
             /\ activities[i].days_old <= time_window_days)
            => get_user_activity_vector(
                   [activities EXCEPT ![i].action = "purchased"], rec.user_id
               ).weights[activities[i].product_id]
                   > rec.weights[activities[i].product_id]

\* C16: the list get_similar_users returns holds no pair of the target user.
C16_TargetNotSimilarToItself ==
    (rec.op = "similar" /\ rec.status = "ok") =>
        \A i \in 1..Len(rec.users) : rec.users[i].user_id # rec.user_id

\* C16 witness: a call for a user with rows in the log returned a non-empty
\* list.
C16_Witness ==
    /\ rec.op = "similar"
    /\ rec.status = "ok"
    /\ rec.users # <<>>
    /\ WithProduct(RecentActivities(activities, rec.user_id)) # <<>>

(***************************************************************************)
(* Claims about empty input, unresolved terms and the stores               *)
(***************************************************************************)

\* an empty or whitespace-only string
Blank(s) == \A i \in 1..Len(s) : s[i] = " "

\* C17: a call with an empty or whitespace-only query returns the empty list:
\* it does not raise and never reaches the ranked path.
C17_BlankQueryReturnsEmpty ==
    \A t \in Threads :
        (pc[t] # "idle" /\ Blank(call[t].query)) => (Done(t) /\ result[t] = Ok(<<>>))

\* C17 witness: a full-mode call with the query " " returned over a catalog
\* with tagged products and embeddings.
C17_Witness ==
    /\ Done(1)
    /\ call[1].query = <<" ">>
    /\ ~call[1].simple_mode
    /\ embeddings # <<>>
    /\ \E i \in 1..Len(products) : products[i].tags # None

\* C18 (as claimed): validate_input returns (0, []) for the empty string in
\* both modes and for every location.
C18_EmptyInputReturnsNothing ==
    (val.called /\ val.input_str = <<>>) => val.out = Returned(0, <<>>)

\* C19 (as claimed): in full mode a general-search term that holds no
\* prohibited keyword and resolves to no category comes back with the
\* UNSUPPORTED status.
C19_UnresolvedTermUnsupported ==
    (val.called /\ ~val.simple_mode /\ val.location = 0) =>
        \A e \in Entries(val.out) :
            LET term == spell_check_and_correct(e.original_term) IN
            (/\ ~ContainsProhibited(term)
             /\ get_category_from_database(term, products) \in {None, <<>>}
             /\ get_category_from_synonyms(term) = None)
            => e.status = STATUS_UNSUPPORTED

\* C20: no step of search_products, suggest_products_for_item,
\* get_user_activity_vector or get_similar_users changes the catalog, the
\* embedding store or the activity log.
C20_StoresUnchanged ==
    [][/\ products' = products
       /\ embeddings' = embeddings
       /\ activities' = activities]_vars

\* C20 witness: after a search call that returned items, a recommendation call
\* returned items over a non-empty activity log.
C20_Witness ==
    /\ prev.status = "done"
    /\ prev.result.items # <<>>
    /\ rec.op = "suggest"
    /\ rec.items # <<>>
    /\ activities # <<>>

(***************************************************************************)
(* Claims about the token-protected endpoints                              *)
(***************************************************************************)

\* a token that is present and does not identify a user with a valid token
InvalidToken(token) ==
    \/ token.kind \in {"malformed", "expired"}
    \/ /\ token.kind = "signed"
       /\ ~\E i \in 1..Len(UserRows) :
             UserRows[i].user_id = token.user_id /\ UserRows[i].token_valid

\* C21 (as claimed): a request that carries an invalid token is answered with
\* status 403 and the protected handler is not executed.
C21_InvalidTokenForbidden ==
    (response.op # "none" /\ InvalidToken(response.token)) =>
        (response.status = 403 /\ ~response.handled)

\* the cart rows of a user among the rows of the table, as a claim reads them
RowsOfUser(rows, user_id) ==
    LET idx == {i \in 1..Len(rows) : rows[i].user_id = user_id}
        nth[k \in 1..Cardinality(idx)] ==
            CHOOSE i \in idx : Cardinality({j \in idx : j < i}) = k - 1
    IN [k \in 1..Cardinality(idx) |-> rows[nth[k]]]

C22_TermsWithinRange ==
    (scored.called /\ ~scored.raised) =>
        \A i \in 1..Len(scored.pairs) :
            /\ PopularityTerm(scored.pairs[i].product.popularity) \in 0..2000
            /\ RatingTerm(scored.pairs[i].product.ratings) \in 0..2000

(***************************************************************************)
(* Claims about the vectors compared                                       *)
(***************************************************************************)

\* the stored bytes of a row decode to a vector of n numbers
DecodesToLength(row, n) ==
    Decodable(row.embedding) /\ Len(FromBuffer(row.embedding)) = n

\* C23 (as claimed): the query vector search_products draws for a dimension
\* group and every item vector of the group have one length, and so have the
\* seed vector of suggest_products_for_item and every candidate vector.
C23_ComparedVectorsSameLength ==
    /\ \A t \in Threads :
          pc[t] = "draw" =>
              LET embeddings_list == Head(loc[t].groups)
              IN \A i \in 1..Len(embeddings_list) :
                     DecodesToLength(embeddings_list[i], embeddings_list[1].dimensions)
    /\ (rec.op = "suggest" /\ HasEmbedding(embeddings, rec.item_id)) =>
          LET current_embedding == FirstEmbedding(embeddings, rec.item_id)
          IN /\ Decodable(current_embedding.embedding)
             /\ \A i \in 1..Len(Candidates) :
                   DecodesToLength(Candidates[i],
                                   Len(FromBuffer(current_embedding.embedding)))

(***************************************************************************)
(* Claims about the activity vector and the similar users                  *)
(***************************************************************************)

\* C28 (as claimed): for every activity log, rows dated ahead of the current
\* time included, get_user_activity_vector returns and every weight of the
\* vector is above 0, and get_similar_users returns: no divisor is 0.
C28_WeightsPositive ==
    /\ rec.op = "vector" =>
          /\ rec.status = "ok"
          /\ \A pid \in DOMAIN rec.weights : rec.weights[pid] > 0
    /\ rec.op = "similar" => rec.status = "ok"

\* the cosine of two activity vectors with a missing product counted as 0, in
\* hundredths
VectorCosine(v, w) ==
    LET items == DOMAIN v \cup DOMAIN w
        dotOver[S \in SUBSET items] ==
            IF S = {} THEN 0
            ELSE LET x == CHOOSE y \in S : TRUE
                 IN WeightGet(v, x) * WeightGet(w, x) + dotOver[S \ {x}]
        squares[S \in SUBSET items] ==
            IF S = {} THEN [v |-> 0, w |-> 0]
            ELSE LET x == CHOOSE y \in S : TRUE
                 IN [v |-> WeightGet(v, x) * WeightGet(v, x) + squares[S \ {x}].v,
                     w |-> WeightGet(w, x) * WeightGet(w, x) + squares[S \ {x}].w]
        size == ISqrt((dotOver[items] * dotOver[items] * 10000) \div (squares[items].v * squares[items].w))
    IN IF dotOver[items] < 0 THEN 0 - size ELSE size

\* the users with a row in the log
UsersOfLog == {activities[i].user_id : i \in 1..Len(activities)}

\* the activity vector of a user over the log
ActivityVectorOf(user_id) == get_user_activity_vector(activities, user_id).weights

\* the other users the claim expects in the list
ExpectedSimilar ==
    {u \in UsersOfLog \ {rec.user_id} :
        /\ DOMAIN ActivityVectorOf(u) \cap DOMAIN ActivityVectorOf(rec.user_id) # {}
        /\ VectorCosine(ActivityVectorOf(rec.user_id), ActivityVectorOf(u)) >= min_similarity}

\* C25: the list get_similar_users returns holds, once each, exactly the other
\* users whose activity vector shares a product with the target's and whose
\* cosine similarity to it is at least min_similarity, each with that
\* similarity, in order of non-increasing similarity.
C25_SimilarUsersExact ==
    (rec.op = "similar" /\ rec.status = "ok") =>
        /\ {rec.users[i].user_id : i \in 1..Len(rec.users)} = ExpectedSimilar
        /\ Len(rec.users) = Cardinality(ExpectedSimilar)
        /\ \A i \in 1..Len(rec.users) :
              rec.users[i].similarity
                  = VectorCosine(ActivityVectorOf(rec.user_id), ActivityVectorOf(rec.users[i].user_id))
        /\ \A i \in 1..Len(rec.users), j \in 1..Len(rec.users) :
              i < j => rec.users[i].similarity >= rec.users[j].similarity

\* C25 witness: a call returned two users of different similarity, the more
\* similar one later in the log than the other.
C25_Witness ==
    /\ rec.op = "similar"
    /\ rec.status = "ok"
    /\ Len(rec.users) = 2
    /\ rec.users[1].similarity > rec.users[2].similarity
    /\ \E i \in 1..Len(activities) :
          /\ activities[i].user_id = rec.users[2].user_id
          /\ \A j \in 1..Len(activities) :
                activities[j].user_id = rec.users[1].user_id => i < j

\* the rows of the log the claim counts for the call's user
Counted ==
    {i \in 1..Len(activities) :
        /\ activities[i].user_id = rec.user_id
        /\ activities[i].days_old <= time_window_days
        /\ activities[i].product_id # NoProduct}

\* the sum of weight * 1 / (1 + days_old) over the counted rows of a product
CountedWeight(pid) ==
    LET rows == {i \in Counted : activities[i].product_id = pid}
        sum[S \in SUBSET rows] ==
            IF S = {} THEN 0
            ELSE LET i == CHOOSE k \in S : TRUE
                 IN BaseWeight(activities[i].action) \div (1 + activities[i].days_old)
                    + sum[S \ {i}]
    IN sum[rows]

\* C26: the vector get_user_activity_vector returns has an entry for exactly
\* the products of the user's rows inside the time window, and each entry is
\* the sum of weight * 1 / (1 + days_old) over these rows; rows of other
\* users, rows older than the window and rows without a product add nothing.
C26_VectorOfCountedRows ==
    (rec.op = "vector" /\ rec.status = "ok") =>
        /\ DOMAIN rec.weights = {activities[i].product_id : i \in Counted}
        /\ \A pid \in DOMAIN rec.weights : rec.weights[pid] = CountedWeight(pid)

\* C26 witness: a call returned a non-empty vector over a log that also holds
\* a row of another user and a row of the user that is older than the window
\* or has no product.
C26_Witness ==
    /\ rec.op = "vector"
    /\ rec.status = "ok"
    /\ DOMAIN rec.weights # {}
    /\ \E i \in 1..Len(activities) :
          /\ activities[i].user_id # rec.user_id
          /\ activities[i].product_id \in DOMAIN rec.weights
    /\ \E i \in 1..Len(activities) :
          /\ activities[i].user_id = rec.user_id
          /\ \/ activities[i].days_old > time_window_days
             \/ activities[i].product_id = NoProduct

\* the sum, over the 5 most similar users of the call's user, of that user's
\* activity weight for the product times the user's similarity
WeightedSum(product_id) ==
    LET similar_users == get_similar_users(activities, rec.user_id).users
        n == IF Len(similar_users) < 5 THEN Len(similar_users) ELSE 5
        sum[k \in 0..n] ==
            IF k = 0 THEN 0
            ELSE sum[k - 1]
                 + WeightGet(get_user_activity_vector(
                                 activities, similar_users[k].user_id).weights, product_id)
                   * similar_users[k].similarity
    IN sum[n]

\* the largest of these sums over the candidates
LargestSum ==
    CHOOSE m \in {WeightedSum(Candidates[i].product_id) : i \in 1..Len(Candidates)} :
        \A i \in 1..Len(Candidates) : WeightedSum(Candidates[i].product_id) <= m

\* the collaborative score as the claim writes it, in hundredths
ClaimedCollab(product_id) ==
    IF LargestSum # 0 THEN (WeightedSum(product_id) * 100) \div LargestSum
    ELSE WeightedSum(product_id) \div WeightUnit

\* the content score of a candidate, in hundredths
ContentScore(candidate) ==
    Cosine(FromBuffer(FirstEmbedding(embeddings, rec.item_id).embedding),
           FromBuffer(candidate.embedding))

\* the final score as the claim writes it, in ten-thousandths
ClaimedFinal(candidate) ==
    IF rec.user_id # NoUser
    THEN 60 * ContentScore(candidate) + 40 * ClaimedCollab(candidate.product_id)
    ELSE 100 * ContentScore(candidate)

\* C24 (as claimed): every entry suggest_products_for_item returns carries the
\* score 0.6 * content + 0.4 * collaborative of its candidate when a user id
\* is given, with the collaborative score the weighted sum over the 5 most
\* similar users divided by the largest such sum when that is not 0, and the
\* content score alone when no user id is given; every collaborative score
\* lies between 0 and 1.
C24_FinalScoreBlend ==
    (Suggested /\ HasEmbedding(embeddings, rec.item_id)) =>
        /\ \A j \in 1..Len(rec.items) :
              \E i \in 1..Len(Candidates) :
                  /\ Candidates[i].product_id = rec.items[j].product_id
                  /\ rec.items[j].similarity_score = Round3(ClaimedFinal(Candidates[i]))
        /\ (rec.user_id # NoUser /\ Candidates # <<>>) =>
              \A i \in 1..Len(Candidates) :
                  ClaimedCollab(Candidates[i].product_id) \in 0..100

(***************************************************************************)
(* Claims about the writers of the embeddings                              *)
(***************************************************************************)

\* C27 (as claimed): when ensure_embeddings has returned without an error,
\* every product of the catalog has an embedding row.
C27_EnsureCoversCatalog ==
    (rec.op = "ensure" /\ rec.status = "ok") =>
        \A i \in 1..Len(products) : HasEmbedding(embeddings, products[i].product_id)

\* C29 (as claimed): the bytes of every embedding row the writers have stored
\* decode, as search.py decodes them, to a vector of as many numbers as the
\* dimensions column of the row says.
C29_DecodedLengthIsDimensions ==
    \A i \in 1..Len(embeddings) : DecodesToLength(embeddings[i], embeddings[i].dimensions)

====
